---------------------------- MODULE Spec2Model ----------------------------
(***************************************************************************)
(* State-machine model of the story-to-slideshow pipeline (ksum).          *)
(*                                                                         *)
(*   SpecSeg : the offline scene segmenter of utils/story_to_scenes.py     *)
(*             (create_advanced_fallback_scenes, story_to_scenes).         *)
(*   Spec    : one run after another of main.process_story over the        *)
(*             outputs/ directory tree, down to the clips that             *)
(*             utils/video_generator.create_slideshow puts on the          *)
(*             timeline.                                                   *)
(*                                                                         *)
(* Texts are sequences of one-character strings.  Durations are counted in *)
(* tenths of a second.                                                     *)
(***************************************************************************)
EXTENDS Integers, Sequences, FiniteSets, TLC

VARIABLES
    \* ---- segmenter (SpecSeg) ----
    story_text,     \* the story handed to the segmenter
    num_scenes,     \* the requested scene count N
    tokenizer,      \* "nltk" when nltk.sent_tokenize answers, "regex" when it raises
    seg_pc,         \* "input" | "done"
    seg_via,        \* "none" | "direct" | "fallback" | "api"
    seg_units,      \* the unit list the chunks were cut from
    seg_groups,     \* the unit groups, one per chunk
    seg_texts,      \* scene_texts
    seg_scenes,     \* the returned scene list
    \* ---- pipeline (Spec) ----
    pc,             \* position inside process_story
    scenes,         \* the scene list of the current run
    k,              \* loop index of the running per-scene loop
    paths,          \* the path list the running per-scene loop collects
    images,         \* outputs/images/scene_{i}.png
    voice_wav,      \* outputs/voice/scene_{i}.wav
    voice_mp3,      \* outputs/voice/scene_{i}.mp3
    music_wav,      \* outputs/music/bg_music.wav
    music_mp3,      \* outputs/music/bg_music.mp3
    video,          \* outputs/final_video.mp4
    output_paths,   \* the dictionary generate_media_from_script returns
    assembled,      \* what create_story_video handed to create_slideshow
    clips,          \* the timeline create_slideshow built
    log,            \* the steps of the current run, in execution order
    \* ---- create_slideshow called on its own (SpecShow) ----
    sl_pc,          \* "off" | "call" | "loop" | "returned"
    sl_scenes,      \* scenes
    sl_image_paths, \* image_paths
    sl_audio_paths, \* audio_paths, each entry a file that exists or is missing
    sl_music,       \* music_path: "none" | "file"
    sl_i,           \* scenes processed so far
    video_clips,    \* video_clips
    sl_faults,      \* the calls that raised during this call, as <<site, scene>>
    sl_result,      \* "pending" | "none" | "path" | "raised"
    sl_video,       \* output_file: "absent" | "written" | "written_with_music"
    \* ---- music theme and fallback music (SpecMusic) ----
    mu_pc,          \* "off" | "theme" | "music" | "fallback" | "done"
    mu_scenes,      \* the scene list, each scene known by its tone field
    mu_theme,       \* the theme get_music_theme_from_scenes returned
    fallback_files, \* outputs/music/fallbacks/*.wav: the themes of the files present
    mu_output,      \* what bg_music.wav holds
    mu_result,      \* what get_fallback_music returned
    \* ---- generate_musical_theme (SpecWave) ----
    wv_pc,          \* "off" | "summed" | "returned"
    waveform,       \* the summed voices, before reverb
    reverb_waveform,\* the returned samples
    \* ---- voice synthesis (SpecVoice) ----
    vo_pc,          \* "off" | "ready"
    vo_text,        \* the narration text
    rng,            \* state of the global random generator
    tts_calls,      \* what each call of text_to_speech_tone wrote so far
    fb_result,      \* what generate_fallback_audio returned
    fb_file,        \* the file at the output path of generate_fallback_audio
    \* ---- text_to_speech_tone sample by sample (SpecTone) ----
    tn_pc,          \* "off" | "call" | "samples" | "written" | "raised"
    tn_text,        \* text
    tn_duration,    \* duration in tenths of a second: <<>> for None, <<d>> for d
    tn_pattern,     \* pattern
    tn_base_freq,   \* base_freq
    tn_i,           \* samples stored so far
    tn_stored,      \* the sample stored last, as a one-element sequence
    \* ---- the procedural image synthesizer (SpecImage) ----
    im_pc,          \* "off" | "call" | "placeholder" | "returned"
    im_prompt,      \* the image prompt of the scene
    im_scene_tone,  \* the tone field of the scene
    im_via,         \* "none" | "scenes" (generate_images_for_scenes) | "direct"
    im_api,         \* what the image API did: "none" | "saved" | "status" | "raised" | "outer"
    im_tone,        \* the tone handed to generate_placeholder_image
    im_colors,      \* colors, the palette the placeholder is drawn with
    im_setting,     \* what analyze_scene_type returned
    im_background,  \* the background elements draw_setting drew
    im_result,      \* "pending" | "path" | "none"
    \* ---- the content analyzer of story_to_scenes.py (SpecAnalyze) ----
    an_pc,          \* "off" | "characters" | "settings" | "objects" | "themes" | "emotions" | "done"
    an_text,        \* text, the stripped story
    characters,     \* characters
    settings,       \* settings
    objects,        \* objects
    themes,         \* themes
    emotions,       \* emotions
    \* ---- ensure_audio_duration applied once and again (SpecClip) ----
    ea_pc,          \* "off" | "call" | "once" | "twice"
    ea_clip,        \* duration of the clip handed in
    ea_target,      \* target_duration, in hundredths of a second
    ea_how,         \* branch taken by the first call: "none" | "trim" | "pad" | "same"
    ea_once,        \* duration of the clip returned by the first call
    ea_twice,       \* duration of the clip returned by the second call
    \* ---- generate_voice_for_scenes and the voice directory (SpecDir) ----
    vd_pc,          \* "off" | "call" | "loop" | "returned" | "raised"
    vd_scenes,      \* scenes: for each scene whether its narration is non-empty
    vd_dir,         \* the files of output_dir: a set of [name, made]
    vd_i,           \* scenes the loop has passed
    vd_audio_paths,  \* audio_paths: the scene numbers of the paths collected
    vd_none,        \* scene numbers for which generate_fallback_audio returned None
    \* ---- the caption word-wrap of create_text_image (SpecWrap) ----
    wr_pc,          \* "off" | "call" | "loop" | "done"
    wr_text,        \* text
    wr_width,       \* width, in pixels
    wr_words,       \* words
    wr_n,           \* words the loop has taken
    wr_line,        \* line: the words of the line being filled
    wr_lines,       \* lines: the lines emitted so far
    \* ---- st.session_state of the front end (SpecFront) ----
    st_story_submitted,  \* story_submitted
    st_script_generated,  \* script_generated
    st_script_approved,  \* script_approved
    st_processing_complete,  \* processing_complete
    st_progress,    \* progress, in hundredths
    st_scenes,      \* scenes
    st_current_step,  \* current_step, "None" for None
    st_output_paths,  \* output_paths: a set of <<key, value>>
    fe_last,        \* the last run: "off" | "start" | "short" | "generate" | "edit" | "approve" | "progress" | "reset" | "rerun"
    fe_before,      \* the session before the last run
    fe_reset        \* Create Another Story was pressed

segvars  == <<story_text, num_scenes, tokenizer, seg_pc, seg_via, seg_units,
              seg_groups, seg_texts, seg_scenes>>
pipevars == <<pc, scenes, k, paths, images, voice_wav, voice_mp3, music_wav, music_mp3,
              video, output_paths, assembled, clips, log>>
showvars == <<sl_pc, sl_scenes, sl_image_paths, sl_audio_paths, sl_music, sl_i,
              video_clips, sl_faults, sl_result, sl_video>>
musicvars == <<mu_pc, mu_scenes, mu_theme, fallback_files, mu_output, mu_result>>
wavevars == <<wv_pc, waveform, reverb_waveform>>
voicevars == <<vo_pc, vo_text, rng, tts_calls, fb_result, fb_file>>
extvars  == <<showvars, musicvars, wavevars, voicevars>>
tonevars == <<tn_pc, tn_text, tn_duration, tn_pattern, tn_base_freq, tn_i, tn_stored>>
imagevars == <<im_pc, im_prompt, im_scene_tone, im_via, im_api, im_tone, im_colors, im_setting, im_background, im_result>>
analyzevars == <<an_pc, an_text, characters, settings, objects, themes, emotions>>
clipvars == <<ea_pc, ea_clip, ea_target, ea_how, ea_once, ea_twice>>
dirvars == <<vd_pc, vd_scenes, vd_dir, vd_i, vd_audio_paths, vd_none>>
wrapvars == <<wr_pc, wr_text, wr_width, wr_words, wr_n, wr_line, wr_lines>>
frontvars == <<st_story_submitted, st_script_generated, st_script_approved, st_processing_complete, st_progress, st_scenes, st_current_step, st_output_paths, fe_last, fe_before, fe_reset>>
latevars == <<tonevars, imagevars, analyzevars, clipvars, dirvars, wrapvars, frontvars>>
besides_tone == <<segvars, pipevars, extvars, imagevars, analyzevars, clipvars, dirvars, wrapvars, frontvars>>
besides_image == <<segvars, pipevars, extvars, tonevars, analyzevars, clipvars, dirvars, wrapvars, frontvars>>
besides_analyze == <<segvars, pipevars, extvars, tonevars, imagevars, clipvars, dirvars, wrapvars, frontvars>>
besides_clip == <<segvars, pipevars, extvars, tonevars, imagevars, analyzevars, dirvars, wrapvars, frontvars>>
besides_dir == <<segvars, pipevars, extvars, tonevars, imagevars, analyzevars, clipvars, wrapvars, frontvars>>
besides_wrap == <<segvars, pipevars, extvars, tonevars, imagevars, analyzevars, clipvars, dirvars, frontvars>>
besides_front == <<segvars, pipevars, extvars, tonevars, imagevars, analyzevars, clipvars, dirvars, wrapvars>>
vars     == <<segvars, pipevars, extvars, latevars>>

Min(a, b) == IF a < b THEN a ELSE b
Max(a, b) == IF a > b THEN a ELSE b

(***************************************************************************)
(* Bounds of the model.                                                    *)
(***************************************************************************)
MaxPieces    == 3     \* a story is built from at most this many pieces
LongWordLen  == 50    \* length of the long word among the pieces
MaxNumScenes == 11    \* largest requested scene count
MaxScenes    == 2     \* longest scene list of a pipeline run
MaxShowScenes == 2    \* longest scene list handed to create_slideshow on its own
MaxMusicScenes == 3   \* longest scene list handed to generate_music_for_story
MaxFrames    == 3     \* frames of the waveform of generate_musical_theme
MaxVoices    == 5     \* notes that sound together in one frame
WaveRate     == 10    \* frames per second of that waveform
MaxVoicePieces == 3   \* a narration text is built from at most this many pieces
RngModulus   == 4     \* number of states of the global random generator
MaxDraws     == 3     \* random draws of one synthesis that are kept
MaxTonePieces == 2    \* a text of SpecTone is built from at most this many pieces
MaxToneTenths == 32   \* longest duration argument of SpecTone, in tenths of a second
ToneRate     == 40    \* samples per second followed in SpecTone
MaxImagePieces == 2   \* an image prompt is built from at most this many pieces
MaxSentences == 7     \* sentences a story of SpecAnalyze is chosen from
MaxClipHundredths == 40    \* longest clip of SpecClip, in hundredths of a second
MaxTargetTenths == 10    \* longest target of SpecClip, in tenths of a second
MaxDirScenes == 2     \* scenes handed to generate_voice_for_scenes in SpecDir
MaxCaptionWords == 3  \* words of a caption of SpecWrap
MaxLineChars == 5     \* glyphs a narrow line of SpecWrap holds
MaxFrontScenes == 2   \* scenes of a script of SpecFront

(***************************************************************************)
(* Program constants.                                                      *)
(***************************************************************************)
CatalogSize      == 10    \* len(SCENE_TYPES) = len(CINEMATIC_STYLES) = len(CAMERA_SHOTS)
DefaultNumScenes == 3     \* num_scenes: int = 3
NarrationPrefix  == 100   \* text[:100]
ShortStoryLimit  == 100   \* if len(text) < 100
MinStoryLength   == 50    \* the shortest story the front end submits
DefaultDuration  == 80    \* scene_duration = 8.0
MinVoiceDuration == 30    \* max(3.0, ...), and the 3.0 s silent file
TenthsPerWord    == 4     \* 60 / 150 words per minute = 0.4 s per word
NoteAmplitude    == 8000  \* generate_arpeggio(..., amplitude=8000)
ReverbDelayMs    == 100   \* delay_ms = 100
ReverbDecayTenths == 6    \* decay = 0.6
NormalizedPeak   == 32000 \* scale_factor = 32000 / max_amplitude
Int16Max         == 32767 \* array.array('h'): signed 16 bit
SampleRate       == 44100 \* sample_rate = 44100
SeedPrefix       == 20    \* text[:20]
FallbackSilence  == 30    \* generate_silent_wave_file(output_file, duration=3.0)
ToneAmplitude    == 20000 \* amplitude = 20000
SyllableRate     == 4     \* syllable_rate = 4
SceneTypePrefix  == 100   \* scene_type = text[:100]
CaptionLimit == 100       \* text[:100] + "..." if len(text) > 100
CaptionMargin == 40       \* text_width > width - 40
DefaultCaptionWidth == 1024  \* def create_text_image(text, width=1024, ...)
GlyphWidth == 6           \* width of a glyph of ImageFont.load_default(), in pixels

(***************************************************************************)
(* Text helpers: Python's str.strip, str.split, str.join and slicing.      *)
(***************************************************************************)
IsSpace(c)      == c \in {" ", "\n"}
IsTerminator(c) == c \in {".", "!", "?"}

RECURSIVE LStrip(_)
LStrip(s) == IF s # <<>> /\ IsSpace(Head(s)) THEN LStrip(Tail(s)) ELSE s

RECURSIVE RStrip(_)
RStrip(s) == IF s # <<>> /\ IsSpace(s[Len(s)])
             THEN RStrip(SubSeq(s, 1, Len(s) - 1)) ELSE s

Strip(s) == RStrip(LStrip(s))

\* s[:n]
Take(s, n) == SubSeq(s, 1, Min(n, Len(s)))

\* sep.join(parts)
RECURSIVE Join(_, _)
Join(parts, sep) ==
    IF parts = <<>> THEN <<>>
    ELSE IF Len(parts) = 1 THEN parts[1]
    ELSE parts[1] \o sep \o Join(Tail(parts), sep)

\* the least element of a non-empty set of positions, 0 for the empty set
FirstOf(positions) ==
    IF positions = {} THEN 0
    ELSE CHOOSE i \in positions : \A j \in positions : i <= j

\* text.split('\n')
RECURSIVE SplitNewline(_)
SplitNewline(s) ==
    LET i == FirstOf({j \in 1..Len(s) : s[j] = "\n"})
    IN  IF i = 0 THEN <<s>>
        ELSE <<SubSeq(s, 1, i - 1)>> \o SplitNewline(SubSeq(s, i + 1, Len(s)))

RECURSIVE DropTerminators(_)
DropTerminators(s) ==
    IF s # <<>> /\ IsTerminator(Head(s)) THEN DropTerminators(Tail(s)) ELSE s

\* re.split(r'[.!?]+', text): cut at every maximal run of terminators, which
\* is dropped
RECURSIVE RegexSplit(_)
RegexSplit(s) ==
    LET i == FirstOf({j \in 1..Len(s) : IsTerminator(s[j])})
    IN  IF i = 0 THEN <<s>>
        ELSE <<SubSeq(s, 1, i - 1)>> \o RegexSplit(DropTerminators(SubSeq(s, i, Len(s))))

\* nltk.sent_tokenize(text): a sentence ends after a terminator that is
\* followed by white space; the terminator stays in the sentence
RECURSIVE SentTokenize(_)
SentTokenize(s) ==
    LET i == FirstOf({j \in 1..(Len(s) - 1) : IsTerminator(s[j]) /\ IsSpace(s[j + 1])})
    IN  IF i = 0 THEN <<s>>
        ELSE <<SubSeq(s, 1, i)>> \o SentTokenize(SubSeq(s, i + 1, Len(s)))

\* [p.strip() for p in parts if p.strip()]
RECURSIVE StrippedNonEmpty(_)
StrippedNonEmpty(parts) ==
    IF parts = <<>> THEN <<>>
    ELSE LET p == Strip(Head(parts))
         IN  (IF p # <<>> THEN <<p>> ELSE <<>>) \o StrippedNonEmpty(Tail(parts))

\* needle in haystack
IsSubstring(needle, hay) ==
    \E i \in 0..(Len(hay) - Len(needle)) : SubSeq(hay, i + 1, i + Len(needle)) = needle

IsPrefix(p, s) == Len(p) <= Len(s) /\ SubSeq(s, 1, Len(p)) = p

RECURSIVE Flatten(_)
Flatten(groups) ==
    IF groups = <<>> THEN <<>> ELSE Head(groups) \o Flatten(Tail(groups))

Ellipsis == <<".", ".", ".">>

(***************************************************************************)
(* create_advanced_fallback_scenes                                         *)
(***************************************************************************)
Paragraphs(text) == StrippedNonEmpty(SplitNewline(text))

Sentences(text, tok) ==
    StrippedNonEmpty(IF tok = "nltk" THEN SentTokenize(text) ELSE RegexSplit(text))

\* the list the chunks are cut from: sentences when there are fewer than
\* num_scenes paragraphs, the paragraphs otherwise
ChosenUnits(text, n, tok) ==
    IF Len(Paragraphs(text)) < n THEN Sentences(text, tok) ELSE Paragraphs(text)

\* units[:n], each unit a chunk of its own, padded with empty chunks
HeadUnits(units, n) ==
    [i \in 1..n |-> IF i <= Len(units) THEN <<units[i]>> ELSE <<>>]

\* sentences[start_idx:end_idx] for every scene
SentenceGroups(sentences, n) ==
    LET per == Max(1, Len(sentences) \div n)
    IN  [i \in 1..n |->
            LET start == (i - 1) * per
                end   == IF i < n THEN start + per ELSE Len(sentences)
            IN  SubSeq(sentences, start + 1, Min(end, Len(sentences)))]

SceneGroups(text, n, tok) ==
    LET paragraphs == Paragraphs(text)
        sentences  == Sentences(text, tok)
    IN  IF Len(paragraphs) < n
        THEN IF Len(sentences) >= n
             THEN SentenceGroups(sentences, n)
             ELSE HeadUnits(sentences, n)
        ELSE HeadUnits(paragraphs, n)

SceneTexts(groups) == [i \in 1..Len(groups) |-> Join(groups[i], <<" ">>)]

\* len(random.sample(catalog, min(num_scenes, len(catalog))))
SampleSize(n) == Min(n, CatalogSize)

Tones == <<"mysterious", "joyful", "somber", "tense", "romantic", "adventurous",
           "dramatic", "peaceful">>

SmartTones == <<"mysterious", "adventurous", "emotional", "dramatic", "peaceful">>

\* the tone list of create_smart_fallback_scenes in the place of tones
ToneOfSlotSmart(i) == SmartTones[(i % Len(SmartTones)) + 1]

\* tones[i % len(tones)], i counted from 0
ToneOfSlot(i) == Tones[(i % Len(Tones)) + 1]

\* scene_text if scene_text else text[:100] + "..."
Narration(scene_text, text) ==
    IF scene_text # <<>> THEN scene_text ELSE Take(text, NarrationPrefix) \o Ellipsis

\* zip(scene_texts, scene_types, cinematic_styles, camera_shots) stops at the
\* shortest of the four lists.  The sampled labels enter description and
\* image_prompt only, which are not modelled.
ScenesOf(scene_texts, text, n) ==
    [i \in 1..Min(Len(scene_texts), SampleSize(n)) |->
        [narration |-> Narration(scene_texts[i], text),
         tone      |-> ToneOfSlot(i - 1)]]

create_advanced_fallback_scenes(story, n, tok) ==
    LET text == Strip(story)
    IN  ScenesOf(SceneTexts(SceneGroups(text, n, tok)), text, n)

(***************************************************************************)
(* The stories of SpecSeg: concatenations of at most MaxPieces pieces.     *)
(***************************************************************************)
LongWord == [i \in 1..LongWordLen |-> "w"]

Pieces == {LongWord, <<"h", "i">>, <<".", " ">>, <<"\n">>, <<" ">>}

RECURSIVE StoriesOf(_)
StoriesOf(n) ==
    IF n = 0 THEN {<<>>}
    ELSE LET shorter == StoriesOf(n - 1)
         IN  shorter \cup {s \o p : s \in shorter, p \in Pieces}

Stories == StoriesOf(MaxPieces)

\* what the remote scene source may answer (json.loads of its reply)
ApiAnswers == {<<>>, <<[narration |-> <<"h", "i">>, tone |-> "calm"]>>}


(***************************************************************************)
(* SpecSeg: the segmenter called on a story.                               *)
(***************************************************************************)
SegInput ==
    /\ seg_pc = "input"
    /\ seg_via = "none"
    /\ seg_units = <<>>
    /\ seg_groups = <<>>
    /\ seg_texts = <<>>
    /\ seg_scenes = <<>>

SegIdle ==
    /\ story_text = <<>>
    /\ num_scenes = DefaultNumScenes
    /\ tokenizer = "regex"
    /\ SegInput

\* create_advanced_fallback_scenes(story_text, num_scenes), as test_run.py
\* calls it
CallAdvancedFallback ==
    /\ seg_pc = "input"
    /\ LET text   == Strip(story_text)
           groups == SceneGroups(text, num_scenes, tokenizer)
       IN  /\ seg_units' = ChosenUnits(text, num_scenes, tokenizer)
           /\ seg_groups' = groups
           /\ seg_texts' = SceneTexts(groups)
           /\ seg_scenes' = create_advanced_fallback_scenes(story_text, num_scenes, tokenizer)
    /\ seg_via' = "direct"
    /\ seg_pc' = "done"
    /\ UNCHANGED <<story_text, num_scenes, tokenizer, pipevars, extvars, latevars>>

\* story_to_scenes(story_text): the remote call raises and the offline
\* substitute runs with its default scene count
StoryToScenesOffline ==
    /\ seg_pc = "input"
    /\ LET text   == Strip(story_text)
           groups == SceneGroups(text, DefaultNumScenes, tokenizer)
       IN  /\ seg_units' = ChosenUnits(text, DefaultNumScenes, tokenizer)
           /\ seg_groups' = groups
           /\ seg_texts' = SceneTexts(groups)
           /\ seg_scenes' = create_advanced_fallback_scenes(story_text, DefaultNumScenes, tokenizer)
    /\ seg_via' = "fallback"
    /\ seg_pc' = "done"
    /\ UNCHANGED <<story_text, num_scenes, tokenizer, pipevars, extvars, latevars>>

\* story_to_scenes(story_text): the remote call answers and its JSON is the
\* scene list
StoryToScenesRemote ==
    /\ seg_pc = "input"
    /\ \E answer \in ApiAnswers : seg_scenes' = answer
    /\ seg_via' = "api"
    /\ seg_pc' = "done"
    /\ UNCHANGED <<story_text, num_scenes, tokenizer, seg_units, seg_groups,
                   seg_texts, pipevars, extvars, latevars>>

(***************************************************************************)
(* The outputs/ tree and process_story.                                    *)
(*                                                                         *)
(* A file is "absent", "old" (left by the run of an earlier story) or      *)
(* written by the current run: an image "new" or "placeholder", a          *)
(* narration "tone" (text_to_speech_tone) or "silent" (the 3.0 s silent    *)
(* file), the music and the video "new".                                   *)
(***************************************************************************)
SceneIds == 1..MaxScenes

\* a scene of a run is known by the number of words of its narration; 0 is
\* the empty narration
WordCounts == {0, 5, 30}

RECURSIVE SceneListsOf(_)
SceneListsOf(n) ==
    IF n = 0 THEN {<<>>}
    ELSE LET shorter == SceneListsOf(n - 1)
         IN  shorter \cup {Append(sl, [words |-> w]) : sl \in {x \in shorter : Len(x) = n - 1},
                                                       w \in WordCounts}

SceneLists == SceneListsOf(MaxScenes)

NoOutputPaths == [images |-> <<>>, voice |-> <<>>, music |-> "", video |-> ""]

NothingAssembled == [image_paths |-> <<>>, audio_paths |-> <<>>,
                     music_path |-> [ext |-> "none", state |-> "absent"],
                     called |-> FALSE]

RunStart ==
    /\ pc = "clean"
    /\ scenes = <<>>
    /\ k = 0
    /\ paths = <<>>
    /\ output_paths = NoOutputPaths
    /\ assembled = NothingAssembled
    /\ clips = <<>>
    /\ log = <<>>

\* a fresh checkout: outputs/ holds no media
PipeIdle ==
    /\ RunStart
    /\ images = [i \in SceneIds |-> "absent"]
    /\ voice_wav = [i \in SceneIds |-> "absent"]
    /\ voice_mp3 = [i \in SceneIds |-> "absent"]
    /\ music_wav = "absent"
    /\ music_mp3 = "absent"
    /\ video = "absent"

Event(stage, event) == [stage |-> stage, event |-> event]

\* the order of the music and the voice stage exchanged
StepAfterMusicFirst(step) ==
    CASE step = "clean"        -> "prepare"
      [] step = "prepare"      -> "segment"
      [] step = "segment"      -> "save_scenes"
      [] step = "save_scenes"  -> "images_begin"
      [] step = "images_begin" -> "images"
      [] step = "images"       -> "music"
      [] step = "music"        -> "voice_begin"
      [] step = "voice_begin"  -> "voice"
      [] step = "voice"        -> "video"
      [] step = "video"        -> "returned"

\* the statement order of generate_script_only and generate_media_from_script
StepAfter(step) ==
    CASE step = "clean"        -> "prepare"
      [] step = "prepare"      -> "segment"
      [] step = "segment"      -> "save_scenes"
      [] step = "save_scenes"  -> "images_begin"
      [] step = "images_begin" -> "images"
      [] step = "images"       -> "voice_begin"
      [] step = "voice_begin"  -> "voice"
      [] step = "voice"        -> "music"
      [] step = "music"        -> "video"
      [] step = "video"        -> "returned"

\* clean_output_directory: scene_*.png, scene_*.mp3 and *.mp4 are removed
clean_output_directory ==
    /\ pc = "clean"
    /\ images' = [i \in SceneIds |-> "absent"]
    /\ voice_mp3' = [i \in SceneIds |-> "absent"]
    /\ video' = "absent"
    /\ log' = Append(log, Event("clean", "end"))
    /\ pc' = StepAfter("clean")
    /\ UNCHANGED <<scenes, k, paths, voice_wav, music_wav, music_mp3, output_paths,
                   assembled, clips, segvars, extvars, latevars>>

\* ensure_directories and the write of outputs/story.txt; when either
\* raises generate_script_only returns the empty scene list
Prepare ==
    /\ pc = "prepare"
    /\ \E ok \in BOOLEAN :
          IF ok
          THEN /\ log' = Append(log, Event("prepare", "end"))
               /\ pc' = StepAfter("prepare")
          ELSE /\ log' = Append(log, Event("prepare", "raise"))
               /\ pc' = StepAfter("segment")
    /\ UNCHANGED <<scenes, k, paths, images, voice_wav, voice_mp3, music_wav, music_mp3,
                   video, output_paths, assembled, clips, segvars, extvars, latevars>>

\* scenes = story_to_scenes(story_text, scenes_path): the list of the remote
\* scene source or of the offline substitute, or [] when it fails
Segment ==
    /\ pc = "segment"
    /\ scenes' \in SceneLists
    /\ log' = Append(log, Event("segment", "end"))
    /\ pc' = StepAfter("segment")
    /\ UNCHANGED <<k, paths, images, voice_wav, voice_mp3, music_wav, music_mp3, video,
                   output_paths, assembled, clips, segvars, extvars, latevars>>

\* generate_media_from_script: json.dump(scenes) to outputs/scenes.json
SaveScenes ==
    /\ pc = "save_scenes"
    /\ \E ok \in BOOLEAN :
          IF ok
          THEN /\ log' = Append(log, Event("save_scenes", "end"))
               /\ pc' = StepAfter("save_scenes")
          ELSE /\ log' = Append(log, Event("save_scenes", "raise"))
               /\ pc' = "returned"
    /\ UNCHANGED <<scenes, k, paths, images, voice_wav, voice_mp3, music_wav, music_mp3,
                   video, output_paths, assembled, clips, segvars, extvars, latevars>>

\* generate_images_for_scenes: os.makedirs(output_dir), outside any try
ImagesBegin ==
    /\ pc = "images_begin"
    /\ \E ok \in BOOLEAN :
          IF ok
          THEN /\ log' = Append(log, Event("images", "begin"))
               /\ pc' = StepAfter("images_begin")
          ELSE /\ log' = Append(log, Event("images", "raise"))
               /\ pc' = "returned"
    /\ k' = 0
    /\ paths' = <<>>
    /\ UNCHANGED <<scenes, images, voice_wav, voice_mp3, music_wav, music_mp3, video,
                   output_paths, assembled, clips, segvars, extvars, latevars>>

\* one turn of the loop of generate_images_for_scenes: generate_image writes
\* scene_{i+1}.png and returns its path, or returns None
GenerateImage ==
    /\ pc = "images"
    /\ k < Len(scenes)
    /\ \E ok \in BOOLEAN :
          /\ images' = IF ok THEN [images EXCEPT ![k + 1] = "new"] ELSE images
          /\ paths' = IF ok THEN Append(paths, k + 1) ELSE paths
    /\ k' = k + 1
    /\ log' = Append(log, Event("images", "scene"))
    /\ UNCHANGED <<pc, scenes, voice_wav, voice_mp3, music_wav, music_mp3, video,
                   output_paths, assembled, clips, segvars, extvars, latevars>>

\* output_paths["images"] = image_paths
ImagesEnd ==
    /\ pc = "images"
    /\ k = Len(scenes)
    /\ output_paths' = [output_paths EXCEPT !.images = paths]
    /\ log' = Append(log, Event("images", "end"))
    /\ pc' = StepAfter("images")
    /\ UNCHANGED <<scenes, k, paths, images, voice_wav, voice_mp3, music_wav, music_mp3,
                   video, assembled, clips, segvars, extvars, latevars>>

\* generate_voice_for_scenes: os.makedirs and os.listdir, outside any try,
\* then every .wav and .mp3 of the voice directory is removed
VoiceBegin ==
    /\ pc = "voice_begin"
    /\ \E ok \in BOOLEAN :
          IF ok
          THEN /\ voice_wav' = [i \in SceneIds |-> "absent"]
               /\ voice_mp3' = [i \in SceneIds |-> "absent"]
               /\ log' = Append(log, Event("voice", "begin"))
               /\ pc' = StepAfter("voice_begin")
          ELSE /\ UNCHANGED <<voice_wav, voice_mp3>>
               /\ log' = Append(log, Event("voice", "raise"))
               /\ pc' = "returned"
    /\ k' = 0
    /\ paths' = <<>>
    /\ UNCHANGED <<scenes, images, music_wav, music_mp3, video, output_paths, assembled,
                   clips, segvars, extvars, latevars>>

\* one turn of the loop of generate_voice_for_scenes: a scene without
\* narration is skipped; generate_fallback_audio writes the tone file, or the
\* silent file when the tone synthesis raises, or returns None
GenerateVoice ==
    /\ pc = "voice"
    /\ k < Len(scenes)
    /\ IF scenes[k + 1].words = 0
       THEN UNCHANGED <<voice_wav, paths>>
       ELSE \E made \in {"tone", "silent", "none"} :
               /\ voice_wav' = IF made = "none" THEN voice_wav
                               ELSE [voice_wav EXCEPT ![k + 1] = made]
               /\ paths' = IF made = "none" THEN paths ELSE Append(paths, k + 1)
    /\ k' = k + 1
    /\ log' = Append(log, Event("voice", "scene"))
    /\ UNCHANGED <<pc, scenes, images, voice_mp3, music_wav, music_mp3, video,
                   output_paths, assembled, clips, segvars, extvars, latevars>>

\* output_paths["voice"] = voice_paths
VoiceEnd ==
    /\ pc = "voice"
    /\ k = Len(scenes)
    /\ output_paths' = [output_paths EXCEPT !.voice = paths]
    /\ log' = Append(log, Event("voice", "end"))
    /\ pc' = StepAfter("voice")
    /\ UNCHANGED <<scenes, k, paths, images, voice_wav, voice_mp3, music_wav, music_mp3,
                   video, assembled, clips, segvars, extvars, latevars>>

\* generate_music_for_story: bg_music.wav is written and its path returned,
\* or get_fallback_music returns None and writes nothing, or the stage raises
\* (os.makedirs, or tone.lower() on a tone that is no string)
generate_music_for_story ==
    /\ pc = "music"
    /\ \E outcome \in {"written", "none", "raise"} :
          /\ music_wav' = IF outcome = "written" THEN "new" ELSE music_wav
          /\ output_paths' = IF outcome = "written"
                             THEN [output_paths EXCEPT !.music = "outputs/music/bg_music.wav"]
                             ELSE output_paths
          /\ log' = Append(log, Event("music", IF outcome = "raise" THEN "raise" ELSE "end"))
          /\ pc' = IF outcome = "raise" THEN "returned" ELSE StepAfter("music")
    /\ UNCHANGED <<scenes, k, paths, images, voice_wav, voice_mp3, music_mp3, video,
                   assembled, clips, segvars, extvars, latevars>>

(***************************************************************************)
(* create_story_video and create_slideshow                                 *)
(***************************************************************************)
\* the image paths create_story_video collects: scene_{i+1}.png for every i
\* in range(len(scenes)) whose file exists, appended one after the other
RECURSIVE CollectImagePaths(_, _, _)
CollectImagePaths(i, n, imgs) ==
    IF i > n THEN <<>>
    ELSE (IF i \in DOMAIN imgs /\ imgs[i] # "absent"
          THEN <<[scene |-> i, state |-> imgs[i]]>> ELSE <<>>)
         \o CollectImagePaths(i + 1, n, imgs)

\* the audio paths create_story_video collects: scene_{i+1}.wav when it
\* exists, else scene_{i+1}.mp3 when that exists, appended one after the other
RECURSIVE CollectAudioPaths(_, _, _, _)
CollectAudioPaths(i, n, wavs, mp3s) ==
    IF i > n THEN <<>>
    ELSE (IF i \in DOMAIN wavs /\ wavs[i] # "absent"
          THEN <<[scene |-> i, ext |-> "wav", state |-> wavs[i]]>>
          ELSE IF i \in DOMAIN mp3s /\ mp3s[i] # "absent"
          THEN <<[scene |-> i, ext |-> "mp3", state |-> mp3s[i]]>>
          ELSE <<>>)
         \o CollectAudioPaths(i + 1, n, wavs, mp3s)

\* bg_music.wav, else bg_music.mp3, else None
CollectMusicPath(wav, mp3) ==
    IF wav # "absent" THEN [ext |-> "wav", state |-> wav]
    ELSE IF mp3 # "absent" THEN [ext |-> "mp3", state |-> mp3]
    ELSE [ext |-> "none", state |-> "absent"]

\* the floor of 3.0 s left out
VoiceDurationNoFloor(words) == words * TenthsPerWord

\* text_to_speech_tone: duration = max(3.0, words / 150 * 60)
VoiceDuration(words) == Max(MinVoiceDuration, words * TenthsPerWord)

\* the lengths a narration file of an earlier story may have
StaleDurations == {30, 120}

\* AudioFileClip(path).duration of the narration file of scene j
FileDuration(state, j, scs, stale) ==
    IF state = "tone" THEN VoiceDuration(scs[j].words)
    ELSE IF state = "silent" THEN MinVoiceDuration
    ELSE stale

\* create_slideshow writes a placeholder for every scene when it is handed
\* no image path at all
SlideshowImagePaths(scs, image_paths) ==
    IF image_paths = <<>> /\ scs # <<>>
    THEN [i \in 1..Len(scs) |-> [scene |-> i, state |-> "placeholder"]]
    ELSE image_paths

\* audio_duration = min(audio_clip.duration, scene_duration)
\* scene_duration = max(scene_duration, audio_duration)
SceneDuration(source_duration) ==
    LET scene_duration == DefaultDuration
        audio_duration == Min(source_duration, scene_duration)
    IN  Max(scene_duration, audio_duration)

\* the clip create_slideshow appends for scene i (counted from 1)
SceneClip(i, scs, image_paths, audio_paths, stale) ==
    LET image == IF i <= Len(image_paths)
                 THEN [kind |-> "scene", scene |-> image_paths[i].scene]
                 ELSE [kind |-> "temp", scene |-> i]
        has_audio == i <= Len(audio_paths) /\ audio_paths[i].state # "absent"
        source == IF has_audio
                  THEN FileDuration(audio_paths[i].state, audio_paths[i].scene, scs, stale)
                  ELSE 0
        scene_duration == IF has_audio THEN SceneDuration(source) ELSE DefaultDuration
    IN  [scene           |-> i,
         image           |-> image,
         audio           |-> IF has_audio
                             THEN [kind |-> "file", scene |-> audio_paths[i].scene,
                                   ext |-> audio_paths[i].ext]
                             ELSE [kind |-> "silence", scene |-> i, ext |-> "none"],
         source_duration |-> source,
         audio_duration  |-> scene_duration,
         duration        |-> scene_duration]

Timeline(scs, image_paths, audio_paths, stale) ==
    [i \in 1..Len(scs) |->
        SceneClip(i, scs, SlideshowImagePaths(scs, image_paths), audio_paths, stale)]

\* create_story_video(scenes): the paths are collected, create_slideshow
\* builds the timeline and encodes it; None when the timeline is empty or
\* the encoder fails
create_story_video ==
    /\ pc = "video"
    /\ LET n           == Len(scenes)
           image_paths == CollectImagePaths(1, n, images)
           audio_paths == CollectAudioPaths(1, n, voice_wav, voice_mp3)
           music_path  == CollectMusicPath(music_wav, music_mp3)
       IN  /\ assembled' = [image_paths |-> image_paths, audio_paths |-> audio_paths,
                            music_path |-> music_path, called |-> TRUE]
           /\ images' = IF image_paths = <<>> /\ n > 0
                        THEN [i \in SceneIds |-> IF i <= n THEN "placeholder" ELSE images[i]]
                        ELSE images
           /\ \E stale \in StaleDurations, encoded \in BOOLEAN :
                 /\ clips' = Timeline(scenes, image_paths, audio_paths, stale)
                 /\ IF n > 0 /\ encoded
                    THEN /\ video' = "new"
                         /\ output_paths' =
                               [output_paths EXCEPT !.video = "outputs/final_video.mp4"]
                    ELSE UNCHANGED <<video, output_paths>>
    /\ log' = Append(log, Event("video", "end"))
    /\ pc' = StepAfter("video")
    /\ UNCHANGED <<scenes, k, paths, voice_wav, voice_mp3, music_wav, music_mp3, segvars, extvars, latevars>>

Aged(state) == IF state = "absent" THEN "absent" ELSE "old"

\* process_story is called for the next story: what the finished run wrote
\* is now the media of an earlier story
NewStory ==
    /\ pc = "returned"
    /\ images' = [i \in SceneIds |-> Aged(images[i])]
    /\ voice_wav' = [i \in SceneIds |-> Aged(voice_wav[i])]
    /\ voice_mp3' = [i \in SceneIds |-> Aged(voice_mp3[i])]
    /\ music_wav' = Aged(music_wav)
    /\ music_mp3' = Aged(music_mp3)
    /\ video' = Aged(video)
    /\ pc' = "clean"
    /\ scenes' = <<>>
    /\ k' = 0
    /\ paths' = <<>>
    /\ output_paths' = NoOutputPaths
    /\ assembled' = NothingAssembled
    /\ clips' = <<>>
    /\ log' = <<>>
    /\ UNCHANGED <<segvars, extvars, latevars>>

(***************************************************************************)
(* The functions that the other specifications call on their own are at    *)
(* rest while process_story or the segmenter runs.                         *)
(***************************************************************************)
ShowIdle ==
    /\ sl_pc = "off"
    /\ sl_scenes = <<>>
    /\ sl_image_paths = <<>>
    /\ sl_audio_paths = <<>>
    /\ sl_music = "none"
    /\ sl_i = 0
    /\ video_clips = <<>>
    /\ sl_faults = {}
    /\ sl_result = "pending"
    /\ sl_video = "absent"

MusicIdle ==
    /\ mu_pc = "off"
    /\ mu_scenes = <<>>
    /\ mu_theme = <<>>
    /\ fallback_files = {}
    /\ mu_output = [kind |-> "absent", theme |-> <<>>]
    /\ mu_result = [value |-> "pending", via |-> "none"]

WaveIdle ==
    /\ wv_pc = "off"
    /\ waveform = <<>>
    /\ reverb_waveform = <<>>

VoiceIdle ==
    /\ vo_pc = "off"
    /\ vo_text = <<>>
    /\ rng = 0
    /\ tts_calls = <<>>
    /\ fb_result = [value |-> "pending", tone |-> "not called", silent |-> "not called"]
    /\ fb_file = [kind |-> "absent", channels |-> 0, frames |-> 0, base_freq |-> 0,
                  noise |-> <<>>]

ToneIdle ==
    /\ tn_pc = "off"
    /\ tn_text = <<>>
    /\ tn_duration = <<>>
    /\ tn_pattern = "none"
    /\ tn_base_freq = 0
    /\ tn_i = 0
    /\ tn_stored = <<>>

ImageIdle ==
    /\ im_pc = "off"
    /\ im_prompt = <<>>
    /\ im_scene_tone = <<>>
    /\ im_via = "none"
    /\ im_api = "none"
    /\ im_tone = <<>>
    /\ im_colors = [bg |-> <<>>, fg |-> <<>>, accent |-> <<>>]
    /\ im_setting = [setting_type |-> "none", character_pose |-> "none", has_character |-> FALSE]
    /\ im_background = "none"
    /\ im_result = "pending"

AnalyzeIdle ==
    /\ an_pc = "off"
    /\ an_text = <<>>
    /\ characters = <<>>
    /\ settings = <<>>
    /\ objects = <<>>
    /\ themes = <<>>
    /\ emotions = <<>>

ClipIdle ==
    /\ ea_pc = "off"
    /\ ea_clip = [hundredths |-> 0, ulps |-> 0]
    /\ ea_target = 0
    /\ ea_how = "none"
    /\ ea_once = [hundredths |-> 0, ulps |-> 0]
    /\ ea_twice = [hundredths |-> 0, ulps |-> 0]

DirIdle ==
    /\ vd_pc = "off"
    /\ vd_scenes = <<>>
    /\ vd_dir = {}
    /\ vd_i = 0
    /\ vd_audio_paths = <<>>
    /\ vd_none = {}

WrapIdle ==
    /\ wr_pc = "off"
    /\ wr_text = <<>>
    /\ wr_width = 0
    /\ wr_words = <<>>
    /\ wr_n = 0
    /\ wr_line = <<>>
    /\ wr_lines = <<>>

FrontIdle ==
    /\ st_story_submitted = FALSE
    /\ st_script_generated = FALSE
    /\ st_script_approved = FALSE
    /\ st_processing_complete = FALSE
    /\ st_progress = 0
    /\ st_scenes = <<>>
    /\ st_current_step = "None"
    /\ st_output_paths = {}
    /\ fe_last = "off"
    /\ fe_before = <<>>
    /\ fe_reset = FALSE

LateIdle == ToneIdle /\ ImageIdle /\ AnalyzeIdle /\ ClipIdle /\ DirIdle /\ WrapIdle /\ FrontIdle

EarlyIdle == PipeIdle /\ SegIdle /\ ShowIdle /\ MusicIdle /\ WaveIdle /\ VoiceIdle

IdleBesidesTone == EarlyIdle /\ ImageIdle /\ AnalyzeIdle /\ ClipIdle /\ DirIdle /\ WrapIdle /\ FrontIdle

IdleBesidesImage == EarlyIdle /\ ToneIdle /\ AnalyzeIdle /\ ClipIdle /\ DirIdle /\ WrapIdle /\ FrontIdle

IdleBesidesAnalyze == EarlyIdle /\ ToneIdle /\ ImageIdle /\ ClipIdle /\ DirIdle /\ WrapIdle /\ FrontIdle

IdleBesidesClip == EarlyIdle /\ ToneIdle /\ ImageIdle /\ AnalyzeIdle /\ DirIdle /\ WrapIdle /\ FrontIdle

IdleBesidesDir == EarlyIdle /\ ToneIdle /\ ImageIdle /\ AnalyzeIdle /\ ClipIdle /\ WrapIdle /\ FrontIdle

IdleBesidesWrap == EarlyIdle /\ ToneIdle /\ ImageIdle /\ AnalyzeIdle /\ ClipIdle /\ DirIdle /\ FrontIdle

IdleBesidesFront == EarlyIdle /\ ToneIdle /\ ImageIdle /\ AnalyzeIdle /\ ClipIdle /\ DirIdle /\ WrapIdle

Init == PipeIdle /\ SegIdle /\ ShowIdle /\ MusicIdle /\ WaveIdle /\ VoiceIdle /\ LateIdle

Next ==
    \/ clean_output_directory
    \/ Prepare
    \/ Segment
    \/ SaveScenes
    \/ ImagesBegin
    \/ GenerateImage
    \/ ImagesEnd
    \/ VoiceBegin
    \/ GenerateVoice
    \/ VoiceEnd
    \/ generate_music_for_story
    \/ create_story_video
    \/ NewStory

Spec == Init /\ [][Next]_vars

(***************************************************************************)
(* Claims about the pipeline, checked under Spec.                          *)
(***************************************************************************)
\* C1: create_story_video followed by create_slideshow attaches to the clip
\* of scene i only the image scene_{i+1}.png and the audio scene_{i+1}.wav
\* (or .mp3), or a placeholder image / silence when that file is absent; a
\* clip never receives the image or audio of another scene index.
C1_ClipKeepsItsSceneIndex ==
    \A i \in 1..Len(clips) :
        /\ clips[i].image.kind = "scene" => clips[i].image.scene = i
        /\ clips[i].audio.kind = "file" => clips[i].audio.scene = i

\* C2: in create_slideshow the clip of a scene whose narration audio is
\* longer than the default 8.0 s lasts as long as the audio: the clip is
\* extended, the audio is not cut to 8.0 s.
C2_ClipFitsLongAudio ==
    \A i \in 1..Len(clips) :
        (clips[i].audio.kind = "file" /\ clips[i].source_duration > DefaultDuration) =>
            /\ clips[i].duration = clips[i].source_duration
            /\ clips[i].audio_duration = clips[i].source_duration

StagesInvoked == {log[j].stage : j \in 1..Len(log)}

\* C8: in generate_media_from_script a failure of one media stage, whether
\* it returns nothing or raises, does not keep the later stages from
\* running: voice, music and video assembly are each still invoked, and the
\* function returns its dictionary.
C8_LaterStagesStillRun ==
    (pc = "returned" /\ "images" \in StagesInvoked) =>
        {"voice", "music", "video"} \subseteq StagesInvoked

\* C9: after a new run of process_story every image, narration audio and
\* background-music file the video assembler picks up was written during
\* that run, also when a stage of the run fails to produce its artifact.
C9_AssemblerUsesOnlyFreshFiles ==
    (assembled.called /\ Len(clips) > 0) =>
        /\ \A i \in 1..Len(assembled.image_paths) : assembled.image_paths[i].state # "old"
        /\ \A i \in 1..Len(assembled.audio_paths) : assembled.audio_paths[i].state # "old"
        /\ assembled.music_path.state # "old"

StageRank(stage) ==
    CASE stage = "clean"       -> 1
      [] stage = "prepare"     -> 2
      [] stage = "segment"     -> 3
      [] stage = "save_scenes" -> 4
      [] stage = "images"      -> 5
      [] stage = "voice"       -> 6
      [] stage = "music"       -> 7
      [] stage = "video"       -> 8

SceneTurns(stage, upto) ==
    Cardinality({j \in 1..upto : log[j] = Event(stage, "scene")})

WrittenThisRun ==
    \/ \E i \in SceneIds : images[i] \in {"new", "placeholder"}
    \/ \E i \in SceneIds : voice_wav[i] \in {"tone", "silent"}
    \/ music_wav = "new"
    \/ video = "new"

\* C10: the steps of process_story occur in one total order without overlap:
\* cleanup completes before any stage writes a file, then segmentation, then
\* image generation for all scenes, then voice generation for all scenes,
\* then music, then video assembly; no stage starts before the one before
\* it has finished.
C10_StagesInOrder ==
    /\ \A j \in 1..(Len(log) - 1) :
          IF log[j].stage = log[j + 1].stage
          THEN /\ log[j].event \in {"begin", "scene"}
               /\ log[j + 1].event \in {"scene", "end"}
          ELSE /\ StageRank(log[j].stage) < StageRank(log[j + 1].stage)
               /\ log[j].event \in {"end", "raise"}
               /\ log[j + 1].event # "scene"
    /\ WrittenThisRun => (log # <<>> /\ log[1] = Event("clean", "end"))
    /\ \A j \in 1..Len(log) :
          /\ log[j].stage \in {"voice", "music", "video"} =>
                SceneTurns("images", j) = Len(scenes)
          /\ log[j].stage \in {"music", "video"} =>
                SceneTurns("voice", j) = Len(scenes)

\* a run of a two-scene story in which every stage succeeded
C10_Witness ==
    /\ pc = "returned"
    /\ Len(scenes) = 2
    /\ \A i \in 1..2 : images[i] = "new" /\ voice_wav[i] = "tone"
    /\ music_wav = "new"
    /\ video = "new"
    /\ log[Len(log)] = Event("video", "end")

InitSeg ==
    /\ story_text \in Stories
    /\ num_scenes \in 1..MaxNumScenes
    /\ tokenizer \in {"nltk", "regex"}
    /\ SegInput
    /\ PipeIdle
    /\ ShowIdle /\ MusicIdle /\ WaveIdle /\ VoiceIdle /\ LateIdle

NextSeg == CallAdvancedFallback \/ StoryToScenesOffline \/ StoryToScenesRemote

SpecSeg == InitSeg /\ [][NextSeg]_vars


(***************************************************************************)
(* Claims about the segmenter, checked under SpecSeg.                      *)
(***************************************************************************)
SegReturned == seg_pc = "done" /\ seg_via \in {"direct", "fallback"}

\* C3: for every story text and every target count N >= 1, also N larger
\* than the 10-entry catalogs, create_advanced_fallback_scenes(text, N)
\* returns a list of exactly N scenes.
C3_ExactlyNScenes ==
    (seg_pc = "done" /\ seg_via = "direct") => Len(seg_scenes) = num_scenes

\* C4: for every story of at least 50 characters the narration of every
\* scene of the offline segmenter is a contiguous verbatim substring of the
\* input, or a prefix of the input when the scene's chunk is empty.
C4_NarrationVerbatim ==
    (SegReturned /\ Len(story_text) >= MinStoryLength) =>
        \A i \in 1..Len(seg_scenes) :
            IF seg_texts[i] # <<>>
            THEN IsSubstring(seg_scenes[i].narration, story_text)
            ELSE IsPrefix(seg_scenes[i].narration, Strip(story_text))

\* C5: the chosen unit list is cut into N contiguous groups that together
\* hold every unit exactly once and in the original order; groups 1..N-1
\* hold floor(U/N) units and the last one the remainder; with U < N the
\* missing groups are empty.  No unit is dropped.
C5_PartitionKeepsEveryUnit ==
    (seg_pc = "done" /\ seg_via = "direct") =>
        LET U == Len(seg_units)
            N == num_scenes
        IN  /\ Len(seg_groups) = N
            /\ Flatten(seg_groups) = seg_units
            /\ U >= N => \A i \in 1..(N - 1) : Len(seg_groups[i]) = U \div N
            /\ U < N  => \A i \in 1..N : Len(seg_groups[i]) = IF i <= U THEN 1 ELSE 0

\* C6: for every story whose trimmed length is below 100 characters,
\* story_to_scenes with its offline substitute returns exactly 1 scene whose
\* narration equals the trimmed input.
C6_ShortStoryOneScene ==
    (seg_pc = "done" /\ seg_via = "fallback"
        /\ Len(Strip(story_text)) < ShortStoryLimit) =>
        /\ Len(seg_scenes) = 1
        /\ seg_scenes[1].narration = Strip(story_text)

C7_Vocabulary == <<"mysterious", "joyful", "somber", "tense", "romantic",
                   "adventurous", "dramatic", "peaceful">>

\* C7: the scene at slot i (0-based) of the list create_advanced_fallback_scenes
\* returns has tone tones[i mod 8] of the fixed ordered list, whatever the
\* story; every tone is non-empty and of the vocabulary, and N = 2 gives
\* mysterious then joyful.
C7_ToneCyclesBySlot ==
    SegReturned =>
        /\ \A i \in 1..Len(seg_scenes) :
              /\ seg_scenes[i].tone = C7_Vocabulary[((i - 1) % 8) + 1]
              /\ seg_scenes[i].tone # ""
        /\ (seg_via = "direct" /\ num_scenes = 2) =>
              /\ Len(seg_scenes) = 2
              /\ seg_scenes[1].tone = "mysterious"
              /\ seg_scenes[2].tone = "joyful"

\* a returned list long enough for the tone list to wrap around, from a
\* story with several sentences
C7_Witness ==
    /\ seg_pc = "done" /\ seg_via = "direct"
    /\ Len(seg_scenes) >= 9
    /\ seg_scenes[9].tone = "mysterious"
    /\ seg_scenes[8].tone = "peaceful"
    /\ Len(seg_units) >= 2

(***************************************************************************)
(* SpecShow: create_slideshow(scenes, image_paths, audio_paths,            *)
(* music_path) called on its own.  Every call the body makes that can      *)
(* raise (file and directory writes, image and audio loading, clip         *)
(* composition, the encoder) either succeeds or raises.                    *)
(***************************************************************************)
\* a scene as create_slideshow reads it: scene.get("description"), which is
\* a text or null, and scene.get("narration", "")
ShowSceneKinds ==
    {[description |-> "text", narration |-> "text"],
     [description |-> "text", narration |-> ""],
     [description |-> "null", narration |-> "text"]}

\* the narration file of the 30-word scene
ShowAudioFiles == {[exists |-> TRUE, duration |-> VoiceDuration(30)],
                   [exists |-> FALSE, duration |-> 0]}

RECURSIVE ListsOver(_, _)
ListsOver(S, n) ==
    IF n = 0 THEN {<<>>}
    ELSE LET shorter == ListsOver(S, n - 1)
         IN  shorter \cup {Append(l, x) : l \in {y \in shorter : Len(y) = n - 1}, x \in S}

\* create_silent_audio() with its default duration=5.0 whatever it is given
create_silent_audio_default(duration) == [kind |-> "silence", duration |-> 50]

\* create_silent_audio(duration)
create_silent_audio(duration) == [kind |-> "silence", duration |-> duration]

\* the try of lines 122-311 encloses the whole body of create_slideshow
SlideshowCatchesLoopOnly(site) == site \in {"placeholder", "concatenate", "write_videofile"}

\* the calls of create_slideshow whose exception reaches the handler of
\* line 311, which returns None
SlideshowCatches(site) ==
    site \in {"makedirs", "placeholder", "concatenate", "write_videofile"}

\* a call that can raise succeeds (TRUE) or raises (FALSE); a call that is
\* not made has no outcome
Outcomes(called) == IF called THEN BOOLEAN ELSE {TRUE}

\* a call outside the per-scene handlers raises: the call of create_slideshow
\* is over
SlideshowFails(site, scene) ==
    /\ sl_faults' = sl_faults \cup {<<site, scene>>}
    /\ sl_result' = IF SlideshowCatches(site) THEN "none" ELSE "raised"
    /\ sl_pc' = "returned"

\* create_placeholder_image(desc) followed by img.save: len(desc) raises on a
\* description that is null, the save raises when the disk refuses
PlaceholderRaises(scene, disk_ok) == scene.description = "null" \/ ~disk_ok

\* lines 122-142: os.makedirs of the output directory, then, when image_paths
\* is empty, one placeholder file per scene appended to image_paths
SlideshowBegin ==
    /\ sl_pc = "call"
    /\ \E dirs_ok \in BOOLEAN, disk_ok \in Outcomes(sl_image_paths = <<>>) :
          IF ~dirs_ok
          THEN /\ SlideshowFails("makedirs", 0)
               /\ UNCHANGED sl_image_paths
          ELSE IF sl_image_paths = <<>> /\ sl_scenes # <<>>
          THEN LET failing == {i \in 1..Len(sl_scenes) :
                                  PlaceholderRaises(sl_scenes[i], disk_ok)}
               IN  IF failing # {}
                   THEN /\ SlideshowFails("placeholder", FirstOf(failing))
                        /\ sl_image_paths' =
                              [i \in 1..(FirstOf(failing) - 1) |-> "placeholder"]
                   ELSE /\ sl_image_paths' = [i \in 1..Len(sl_scenes) |-> "placeholder"]
                        /\ sl_pc' = "loop"
                        /\ UNCHANGED <<sl_faults, sl_result>>
          ELSE /\ sl_pc' = "loop"
               /\ UNCHANGED <<sl_image_paths, sl_faults, sl_result>>
    /\ UNCHANGED <<sl_scenes, sl_audio_paths, sl_music, sl_i, video_clips, sl_video,
                   segvars, pipevars, musicvars, wavevars, voicevars, latevars>>

\* lines 166-239: the clip of scene i when ImageClip and the fades succeed
ComposedClip(i, scene, image, audio_file, audio_ok, caption_ok) ==
    LET has_audio == audio_file.exists
        scene_duration == IF has_audio /\ audio_ok
                          THEN SceneDuration(audio_file.duration)
                          ELSE DefaultDuration
    IN  [scene    |-> i,
         visual   |-> "image",
         image    |-> image,
         audio    |-> IF has_audio /\ audio_ok
                      THEN [kind |-> "file", duration |-> scene_duration]
                      ELSE create_silent_audio(DefaultDuration),
         duration |-> scene_duration,
         caption  |-> scene.narration # "" /\ caption_ok]

\* lines 246-250: the solid-color clip with a silent track
ColorClip(i) ==
    [scene    |-> i,
     visual   |-> "color",
     image    |-> "none",
     audio    |-> create_silent_audio(DefaultDuration),
     duration |-> DefaultDuration,
     caption  |-> FALSE]

\* audio_paths[i] when i < len(audio_paths) and the file exists
SceneAudioFile(i, audio_paths) ==
    IF i <= Len(audio_paths) /\ audio_paths[i].exists
    THEN audio_paths[i]
    ELSE [exists |-> FALSE, duration |-> 0]

\* one turn of the loop of lines 145-252
ProcessScene ==
    /\ sl_pc = "loop"
    /\ sl_i < Len(sl_scenes)
    /\ LET i          == sl_i + 1
           scene      == sl_scenes[i]
           in_list    == i <= Len(sl_image_paths)
           audio_file == SceneAudioFile(i, sl_audio_paths)
       IN  \E disk_ok \in Outcomes(~in_list), image_ok \in BOOLEAN :
           \E audio_ok \in Outcomes(image_ok /\ audio_file.exists),
              caption_ok \in Outcomes(image_ok /\ scene.narration # ""),
              fallback_ok \in Outcomes(~image_ok) :
              IF ~in_list /\ PlaceholderRaises(scene, disk_ok)
              THEN /\ SlideshowFails("placeholder", i)
                   /\ UNCHANGED <<sl_i, video_clips>>
              ELSE /\ sl_i' = i
                   /\ sl_pc' = "loop"
                   /\ sl_result' = sl_result
                   /\ IF image_ok
                      THEN /\ video_clips' =
                                Append(video_clips,
                                       ComposedClip(i, scene,
                                                    IF in_list THEN sl_image_paths[i]
                                                    ELSE "temp",
                                                    audio_file, audio_ok, caption_ok))
                           /\ sl_faults' = sl_faults
                                \cup (IF audio_file.exists /\ ~audio_ok
                                      THEN {<<"audio", i>>} ELSE {})
                                \cup (IF scene.narration # "" /\ ~caption_ok
                                      THEN {<<"caption", i>>} ELSE {})
                      ELSE IF fallback_ok
                      THEN /\ video_clips' = Append(video_clips, ColorClip(i))
                           /\ sl_faults' = sl_faults \cup {<<"image", i>>}
                      ELSE /\ video_clips' = video_clips
                           /\ sl_faults' = sl_faults \cup {<<"image", i>>, <<"fallback", i>>}
    /\ UNCHANGED <<sl_scenes, sl_image_paths, sl_audio_paths, sl_music, sl_video,
                   segvars, pipevars, musicvars, wavevars, voicevars, latevars>>

\* lines 254-309: None when no clip was made; concatenate_videoclips; the
\* music is mixed in when it can be loaded; write_videofile; return output_file
SlideshowFinish ==
    /\ sl_pc = "loop"
    /\ sl_i = Len(sl_scenes)
    /\ IF video_clips = <<>>
       THEN /\ sl_result' = "none"
            /\ sl_pc' = "returned"
            /\ UNCHANGED <<sl_faults, sl_video>>
       ELSE \E concat_ok \in BOOLEAN, music_ok \in Outcomes(sl_music = "file"),
               write_ok \in BOOLEAN :
               IF ~concat_ok
               THEN /\ SlideshowFails("concatenate", 0)
                    /\ UNCHANGED sl_video
               ELSE IF ~write_ok
               THEN /\ SlideshowFails("write_videofile", 0)
                    /\ UNCHANGED sl_video
               ELSE /\ sl_video' = IF sl_music = "file" /\ music_ok
                                   THEN "written_with_music" ELSE "written"
                    /\ sl_faults' = sl_faults \cup (IF sl_music = "file" /\ ~music_ok
                                                    THEN {<<"music", 0>>} ELSE {})
                    /\ sl_result' = "path"
                    /\ sl_pc' = "returned"
    /\ UNCHANGED <<sl_scenes, sl_image_paths, sl_audio_paths, sl_music, sl_i, video_clips,
                   segvars, pipevars, musicvars, wavevars, voicevars, latevars>>

InitShow ==
    /\ sl_pc = "call"
    /\ sl_scenes \in ListsOver(ShowSceneKinds, MaxShowScenes)
    /\ sl_image_paths \in ListsOver({"given"}, MaxShowScenes)
    /\ sl_audio_paths \in ListsOver(ShowAudioFiles, MaxShowScenes)
    /\ sl_music \in {"none", "file"}
    /\ sl_i = 0
    /\ video_clips = <<>>
    /\ sl_faults = {}
    /\ sl_result = "pending"
    /\ sl_video = "absent"
    /\ PipeIdle /\ SegIdle /\ MusicIdle /\ WaveIdle /\ VoiceIdle /\ LateIdle

NextShow == SlideshowBegin \/ ProcessScene \/ SlideshowFinish

SpecShow == InitShow /\ [][NextShow]_vars

(***************************************************************************)
(* Claims about create_slideshow, checked under SpecShow.                  *)
(***************************************************************************)
\* the scenes create_slideshow has gone through whose audio_paths entry is
\* absent or names a file that does not exist
WithoutAudio == {i \in 1..sl_i : ~SceneAudioFile(i, sl_audio_paths).exists}

\* C11: in create_slideshow a scene with no usable narration audio (no entry
\* in audio_paths, or an entry whose file does not exist) still yields a
\* clip, whose audio is a silent track of exactly the default 8.0 s and
\* whose duration is 8.0 s; the missing audio makes nothing fail: the scene
\* has its clip unless the solid-color fallback itself raised, and the call
\* that had no fault returns its output path.
C11_SilentTrackForMissingAudio ==
    /\ \A j \in 1..Len(video_clips) :
          video_clips[j].scene \in WithoutAudio =>
              /\ video_clips[j].audio = [kind |-> "silence", duration |-> DefaultDuration]
              /\ video_clips[j].duration = DefaultDuration
    /\ \A i \in WithoutAudio :
          <<"fallback", i>> \notin sl_faults =>
              \E j \in 1..Len(video_clips) : video_clips[j].scene = i
    /\ (sl_pc = "returned" /\ sl_faults = {} /\ sl_scenes # <<>>) => sl_result = "path"

\* a returned call whose first scene had an audio_paths entry naming a
\* missing file and whose second scene had no entry, both with image clips
C11_Witness ==
    /\ sl_pc = "returned"
    /\ sl_result = "path"
    /\ Len(sl_scenes) = 2
    /\ Len(sl_audio_paths) = 1
    /\ WithoutAudio = {1, 2}
    /\ Len(video_clips) = 2
    /\ \A j \in 1..2 : /\ video_clips[j].visual = "image"
                       /\ video_clips[j].audio.kind = "silence"
                       /\ video_clips[j].duration = DefaultDuration

\* C12: after create_slideshow has processed its scenes the timeline holds
\* exactly one clip per scene, in scene-index order, for every combination
\* of image, audio and caption failures: a failing scene degrades to the
\* placeholder image or the solid-color clip and no scene is dropped.
C12_OneClipPerScene ==
    (sl_pc = "returned" /\ <<"makedirs", 0>> \notin sl_faults) =>
        /\ Len(video_clips) = Len(sl_scenes)
        /\ \A j \in 1..Len(video_clips) : video_clips[j].scene = j

\* C13: create_slideshow never raises to its caller: on an unrecoverable
\* failure (no clip on the timeline, concatenation or encoder failure, a
\* directory or placeholder write that fails) it returns None, and it
\* returns the output path only after the video file has been written.
C13_NeverRaises ==
    /\ sl_result # "raised"
    /\ (sl_pc = "returned") =>
          /\ sl_result \in {"none", "path"}
          /\ (sl_result = "path") <=> (sl_video \in {"written", "written_with_music"})
          /\ (video_clips = <<>>
                \/ \E site \in {"makedirs", "placeholder", "concatenate", "write_videofile"},
                      i \in 0..Len(sl_scenes) : <<site, i>> \in sl_faults)
             => sl_result = "none"
    /\ (sl_pc # "returned") => (sl_result = "pending" /\ sl_video = "absent")

\* a call whose directory could not be made, and which returned None
C13_Witness ==
    /\ sl_pc = "returned"
    /\ <<"makedirs", 0>> \in sl_faults
    /\ sl_result = "none"
    /\ sl_scenes # <<>>

(***************************************************************************)
(* SpecMusic: generate_music_for_story called on a scene list: the theme   *)
(* of get_music_theme_from_scenes and the fallback music of                *)
(* get_fallback_music over the cache outputs/music/fallbacks.              *)
(***************************************************************************)
UpperCase == <<"A", "B", "C", "D", "E", "F", "G", "H", "I", "J", "K", "L", "M",
               "N", "O", "P", "Q", "R", "S", "T", "U", "V", "W", "X", "Y", "Z">>

LowerCase == <<"a", "b", "c", "d", "e", "f", "g", "h", "i", "j", "k", "l", "m",
               "n", "o", "p", "q", "r", "s", "t", "u", "v", "w", "x", "y", "z">>

\* str.lower()
Lower(s) ==
    [j \in 1..Len(s) |->
        IF \E u \in 1..Len(UpperCase) : UpperCase[u] = s[j]
        THEN LowerCase[CHOOSE u \in 1..Len(UpperCase) : UpperCase[u] = s[j]]
        ELSE s[j]]

\* str.split(): the maximal runs of characters that are no white space
RECURSIVE Words(_)
Words(s) ==
    LET t == LStrip(s)
        i == FirstOf({j \in 1..Len(t) : IsSpace(t[j])})
    IN  IF t = <<>> THEN <<>>
        ELSE IF i = 0 THEN <<t>>
        ELSE <<SubSeq(t, 1, i - 1)>> \o Words(SubSeq(t, i + 1, Len(t)))

\* the keys of DEFAULT_MUSIC_THEMES
Key_adventure == <<"a", "d", "v", "e", "n", "t", "u", "r", "e">>

Key_mysterious == <<"m", "y", "s", "t", "e", "r", "i", "o", "u", "s">>

Key_happy == <<"h", "a", "p", "p", "y">>

Key_sad == <<"s", "a", "d">>

Key_tense == <<"t", "e", "n", "s", "e">>

Key_romantic == <<"r", "o", "m", "a", "n", "t", "i", "c">>

Key_magical == <<"m", "a", "g", "i", "c", "a", "l">>

Key_neutral == <<"n", "e", "u", "t", "r", "a", "l">>

\* the values of DEFAULT_MUSIC_THEMES
\* "Epic orchestral adventure music with heroic brass and strings"
Theme_adventure ==
    <<"E", "p", "i", "c", " ", "o", "r", "c", "h", "e", "s", "t", "r", "a", "l", " ",
      "a", "d", "v", "e", "n", "t", "u", "r", "e", " ", "m", "u", "s", "i", "c", " ",
      "w", "i", "t", "h", " ", "h", "e", "r", "o", "i", "c", " ", "b", "r", "a", "s",
      "s", " ", "a", "n", "d", " ", "s", "t", "r", "i", "n", "g", "s">>

\* "Dark ambient mysterious music with subtle piano and ethereal pads"
Theme_mysterious ==
    <<"D", "a", "r", "k", " ", "a", "m", "b", "i", "e", "n", "t", " ", "m", "y", "s",
      "t", "e", "r", "i", "o", "u", "s", " ", "m", "u", "s", "i", "c", " ", "w", "i",
      "t", "h", " ", "s", "u", "b", "t", "l", "e", " ", "p", "i", "a", "n", "o", " ",
      "a", "n", "d", " ", "e", "t", "h", "e", "r", "e", "a", "l", " ", "p", "a", "d",
      "s">>

\* "Cheerful uplifting music with acoustic guitar and light percussion"
Theme_happy ==
    <<"C", "h", "e", "e", "r", "f", "u", "l", " ", "u", "p", "l", "i", "f", "t", "i",
      "n", "g", " ", "m", "u", "s", "i", "c", " ", "w", "i", "t", "h", " ", "a", "c",
      "o", "u", "s", "t", "i", "c", " ", "g", "u", "i", "t", "a", "r", " ", "a", "n",
      "d", " ", "l", "i", "g", "h", "t", " ", "p", "e", "r", "c", "u", "s", "s", "i",
      "o", "n">>

\* "Melancholic piano music with soft strings and gentle melody"
Theme_sad ==
    <<"M", "e", "l", "a", "n", "c", "h", "o", "l", "i", "c", " ", "p", "i", "a", "n",
      "o", " ", "m", "u", "s", "i", "c", " ", "w", "i", "t", "h", " ", "s", "o", "f",
      "t", " ", "s", "t", "r", "i", "n", "g", "s", " ", "a", "n", "d", " ", "g", "e",
      "n", "t", "l", "e", " ", "m", "e", "l", "o", "d", "y">>

\* "Suspenseful music with rising tension and dramatic percussion"
Theme_tense ==
    <<"S", "u", "s", "p", "e", "n", "s", "e", "f", "u", "l", " ", "m", "u", "s", "i",
      "c", " ", "w", "i", "t", "h", " ", "r", "i", "s", "i", "n", "g", " ", "t", "e",
      "n", "s", "i", "o", "n", " ", "a", "n", "d", " ", "d", "r", "a", "m", "a", "t",
      "i", "c", " ", "p", "e", "r", "c", "u", "s", "s", "i", "o", "n">>

\* "Emotional romantic music with sweeping strings and piano"
Theme_romantic ==
    <<"E", "m", "o", "t", "i", "o", "n", "a", "l", " ", "r", "o", "m", "a", "n", "t",
      "i", "c", " ", "m", "u", "s", "i", "c", " ", "w", "i", "t", "h", " ", "s", "w",
      "e", "e", "p", "i", "n", "g", " ", "s", "t", "r", "i", "n", "g", "s", " ", "a",
      "n", "d", " ", "p", "i", "a", "n", "o">>

\* "Magical fantasy music with harp arpeggios and light bells"
Theme_magical ==
    <<"M", "a", "g", "i", "c", "a", "l", " ", "f", "a", "n", "t", "a", "s", "y", " ",
      "m", "u", "s", "i", "c", " ", "w", "i", "t", "h", " ", "h", "a", "r", "p", " ",
      "a", "r", "p", "e", "g", "g", "i", "o", "s", " ", "a", "n", "d", " ", "l", "i",
      "g", "h", "t", " ", "b", "e", "l", "l", "s">>

\* "Gentle ambient background music with subtle piano"
Theme_neutral ==
    <<"G", "e", "n", "t", "l", "e", " ", "a", "m", "b", "i", "e", "n", "t", " ", "b",
      "a", "c", "k", "g", "r", "o", "u", "n", "d", " ", "m", "u", "s", "i", "c", " ",
      "w", "i", "t", "h", " ", "s", "u", "b", "t", "l", "e", " ", "p", "i", "a", "n",
      "o">>

\* DEFAULT_MUSIC_THEMES, in the order of the dictionary
DEFAULT_MUSIC_THEMES ==
    <<[key |-> Key_adventure,  theme |-> Theme_adventure],
      [key |-> Key_mysterious, theme |-> Theme_mysterious],
      [key |-> Key_happy,      theme |-> Theme_happy],
      [key |-> Key_sad,        theme |-> Theme_sad],
      [key |-> Key_tense,      theme |-> Theme_tense],
      [key |-> Key_romantic,   theme |-> Theme_romantic],
      [key |-> Key_magical,    theme |-> Theme_magical],
      [key |-> Key_neutral,    theme |-> Theme_neutral]>>

Tone_peaceful == <<"p", "e", "a", "c", "e", "f", "u", "l">>

Tone_Tense == <<"T", "e", "n", "s", "e">>

\* the tone field of a scene: a text, absent, or null
ToneFields ==
    {[kind |-> "text", tone |-> Key_tense],
     [kind |-> "text", tone |-> Tone_Tense],
     [kind |-> "text", tone |-> Tone_peaceful],
     [kind |-> "text", tone |-> <<>>],
     [kind |-> "missing", tone |-> <<>>],
     [kind |-> "null", tone |-> <<>>]}

\* scene.get("tone", "")
ToneOf(scene) == IF scene.kind = "text" THEN scene.tone ELSE <<>>

\* tones = [scene.get("tone", "").lower() for scene in scenes]
LoweredTones(scs) == [j \in 1..Len(scs) |-> Lower(ToneOf(scs[j]))]

\* tone_counts[tone]
ToneCount(tones, tone) == Cardinality({j \in 1..Len(tones) : tones[j] = tone})

\* the first tone of the list in the place of the most frequent one
MostCommonToneFirst(tones) ==
    IF tones = <<>> THEN Key_neutral ELSE tones[1]

\* max(tone_counts.items(), key=lambda x: x[1])[0] if tone_counts else
\* "neutral": the first inserted tone among those of the largest count
MostCommonTone(tones) ==
    IF tones = <<>> THEN Key_neutral
    ELSE tones[FirstOf({i \in 1..Len(tones) :
                           \A j \in 1..Len(tones) :
                               ToneCount(tones, tones[j]) <= ToneCount(tones, tones[i])})]

\* the loop over DEFAULT_MUSIC_THEMES: the first key that is inside the tone
\* or that the tone is inside of; the neutral theme when there is none
ThemeOfTone(tone) ==
    LET hit == FirstOf({n \in 1..Len(DEFAULT_MUSIC_THEMES) :
                           \/ IsSubstring(DEFAULT_MUSIC_THEMES[n].key, tone)
                           \/ IsSubstring(tone, DEFAULT_MUSIC_THEMES[n].key)})
    IN  IF hit = 0 THEN Theme_neutral ELSE DEFAULT_MUSIC_THEMES[hit].theme

get_music_theme_from_scenes(scs) == ThemeOfTone(MostCommonTone(LoweredTones(scs)))

\* the themes create_fallback_music_dir writes a file for, in its order
PlaceholderThemes == <<Key_adventure, Key_mysterious, Key_happy, Key_sad>>

\* file_theme in theme.lower() or any(file_theme in t for t in
\* theme.lower().split()), for the files of the cache
MatchingFiles(files, theme) ==
    LET lowered == Lower(theme)
        words   == Words(lowered)
    IN  {f \in files :
            \/ IsSubstring(Lower(f), lowered)
            \/ \E w \in 1..Len(words) : IsSubstring(Lower(f), words[w])}

NoMusicFile == [kind |-> "absent", theme |-> <<>>]

\* generate_music_for_story: os.makedirs, then the theme of the scene list;
\* tone.lower() raises on a tone that is null
MusicTheme ==
    /\ mu_pc = "theme"
    /\ \E dirs_ok \in BOOLEAN :
          IF dirs_ok /\ \A j \in 1..Len(mu_scenes) : mu_scenes[j].kind # "null"
          THEN /\ mu_theme' = get_music_theme_from_scenes(mu_scenes)
               /\ mu_pc' = "music"
               /\ mu_result' = mu_result
          ELSE /\ mu_theme' = <<>>
               /\ mu_pc' = "done"
               /\ mu_result' = [value |-> "raised", via |-> "none"]
    /\ UNCHANGED <<mu_scenes, fallback_files, mu_output,
                   segvars, pipevars, showvars, wavevars, voicevars, latevars>>

\* generate_music with SUNO_API_KEY set: generate_music_with_suno writes the
\* waveform of generate_musical_theme(theme); when it raises it returns None
\* and generate_music goes on to get_fallback_music
GenerateMusicWithSuno ==
    /\ mu_pc = "music"
    /\ \E ok \in BOOLEAN :
          IF ok
          THEN /\ mu_output' = [kind |-> "fresh", theme |-> mu_theme]
               /\ mu_result' = [value |-> "path", via |-> "suno"]
               /\ mu_pc' = "done"
          ELSE /\ mu_pc' = "fallback"
               /\ UNCHANGED <<mu_output, mu_result>>
    /\ UNCHANGED <<mu_scenes, mu_theme, fallback_files,
                   segvars, pipevars, showvars, wavevars, voicevars, latevars>>

\* create_fallback_music_dir: when the cache holds no .wav file the files of
\* PlaceholderThemes are written one after the other, as many as "written"
\* before a write raises
PopulatedCache(files, written) ==
    IF files = {} THEN {PlaceholderThemes[n] : n \in 1..written} ELSE files

\* get_fallback_music(theme, output_file)
get_fallback_music ==
    /\ mu_pc \in {"music", "fallback"}
    /\ \E written \in (IF fallback_files = {} THEN 0..Len(PlaceholderThemes)
                        ELSE {Len(PlaceholderThemes)}),
          copy_ok \in BOOLEAN :
          LET files    == PopulatedCache(fallback_files, written)
              complete == fallback_files # {} \/ written = Len(PlaceholderThemes)
              matching == MatchingFiles(files, mu_theme)
          IN  /\ fallback_files' = files
              /\ IF ~complete
                 THEN /\ mu_result' = [value |-> "none", via |-> "fallback"]
                      /\ mu_output' = mu_output
                 ELSE IF files = {}
                 THEN /\ mu_output' = IF copy_ok THEN [kind |-> "fresh", theme |-> mu_theme]
                                      ELSE mu_output
                      /\ mu_result' = [value |-> IF copy_ok THEN "path" ELSE "none",
                                       via |-> "fallback"]
                 ELSE \E chosen \in (IF matching # {} THEN matching ELSE files) :
                         /\ mu_output' = IF copy_ok THEN [kind |-> "copy", theme |-> chosen]
                                         ELSE mu_output
                         /\ mu_result' = [value |-> IF copy_ok THEN "path" ELSE "none",
                                          via |-> "fallback"]
    /\ mu_pc' = "done"
    /\ UNCHANGED <<mu_scenes, mu_theme, segvars, pipevars, showvars, wavevars, voicevars, latevars>>

MusicScenes == ListsOver(ToneFields, MaxMusicScenes)

\* what outputs/music/fallbacks holds when get_fallback_music is called:
\* nothing on a fresh checkout, else what an earlier call of
\* create_fallback_music_dir wrote, all its files or those before the write
\* that raised
CacheStates == {{PlaceholderThemes[n] : n \in 1..written} :
                   written \in 0..Len(PlaceholderThemes)}

InitMusic ==
    /\ mu_pc = "theme"
    /\ mu_scenes \in MusicScenes
    /\ mu_theme = <<>>
    /\ fallback_files \in CacheStates
    /\ mu_output = NoMusicFile
    /\ mu_result = [value |-> "pending", via |-> "none"]
    /\ PipeIdle /\ SegIdle /\ ShowIdle /\ WaveIdle /\ VoiceIdle /\ LateIdle

NextMusic == MusicTheme \/ GenerateMusicWithSuno \/ get_fallback_music

SpecMusic == InitMusic /\ [][NextMusic]_vars

(***************************************************************************)
(* Claims about the music theme and the fallback music, under SpecMusic.   *)
(***************************************************************************)
ThemeReturned == mu_pc \in {"music", "fallback"} \/ (mu_pc = "done" /\ mu_theme # <<>>)

\* the lower-cased tones of the largest count
MostFrequentTones ==
    LET tones == LoweredTones(mu_scenes)
    IN  {tones[i] : i \in {i \in 1..Len(tones) :
                              \A j \in 1..Len(tones) :
                                  ToneCount(tones, tones[j]) <= ToneCount(tones, tones[i])}}

\* C14: get_music_theme_from_scenes returns the template of the tone that
\* occurs most often in the scene list: a tone that occurs less often than
\* another never determines the result; tense, tense, peaceful gives the
\* "Suspenseful music..." template of key tense.
C14_MostFrequentToneDecides ==
    ThemeReturned =>
        /\ mu_scenes # <<>> => mu_theme \in {ThemeOfTone(t) : t \in MostFrequentTones}
        /\ mu_scenes = <<>> => mu_theme = Theme_neutral
        /\ LoweredTones(mu_scenes) = <<Key_tense, Key_tense, Tone_peaceful>>
              => mu_theme = Theme_tense

\* the scene list peaceful, tense, tense: the most frequent tone is not the
\* first one
C14_Witness ==
    /\ ThemeReturned
    /\ Len(mu_scenes) = 3
    /\ LoweredTones(mu_scenes) = <<Tone_peaceful, Key_tense, Key_tense>>
    /\ mu_theme = Theme_tense

\* C15: when the most frequent tone of the scene list names none of the 8
\* template keys, also when the scenes have no tone field or an empty tone,
\* get_music_theme_from_scenes returns the neutral ambient template.
C15_NeutralWhenNoKeyNamed ==
    ThemeReturned =>
        \A t \in MostFrequentTones :
            (Cardinality(MostFrequentTones) = 1
               /\ \A n \in 1..Len(DEFAULT_MUSIC_THEMES) :
                     ~IsSubstring(DEFAULT_MUSIC_THEMES[n].key, t))
            => mu_theme = Theme_neutral

\* C16: get_fallback_music copies a cached file only when the file's theme
\* keyword matches the requested theme; when no cached file matches, the
\* output is synthesized fresh from the requested theme and is no copy of a
\* cached file.  The cache is populated only when it holds no .wav file,
\* and only with adventure, mysterious, happy and sad.
C16_CopyOnlyMatchingFile ==
    [][(mu_pc \in {"music", "fallback"} /\ mu_pc' = "done" /\ mu_result'.via = "fallback") =>
          /\ (fallback_files' # fallback_files) =>
                /\ fallback_files = {}
                /\ fallback_files' \subseteq {Key_adventure, Key_mysterious, Key_happy, Key_sad}
          /\ (mu_result'.value = "path") =>
                IF MatchingFiles(fallback_files', mu_theme) # {}
                THEN /\ mu_output'.kind = "copy"
                     /\ mu_output'.theme \in MatchingFiles(fallback_files', mu_theme)
                ELSE mu_output' = [kind |-> "fresh", theme |-> mu_theme]
      ]_vars

(***************************************************************************)
(* SpecWave: the end of generate_musical_theme: the summed voices go       *)
(* through the delay-based reverb and the normalization, and the result    *)
(* is stored as array.array('h').                                          *)
(***************************************************************************)
Abs(x) == IF x < 0 THEN -x ELSE x

Sign(x) == IF x < 0 THEN -1 ELSE IF x > 0 THEN 1 ELSE 0

\* int(a / b) for b > 0: the quotient cut towards zero
TruncDiv(a, b) == Sign(a) * (Abs(a) \div b)

\* the sums a frame can hold when up to MaxVoices notes of amplitude
\* NoteAmplitude sound together
VoiceSums == {j * NoteAmplitude : j \in (0 - MaxVoices)..MaxVoices}

\* delay_frames = int(delay_ms * sample_rate / 1000), at the frame rate of
\* the modelled waveform
delay_frames == (ReverbDelayMs * WaveRate) \div 1000

\* reverb_waveform[i] = waveform[i] + int(waveform[i - delay_frames] * decay)
Reverb(wave) ==
    [i \in 1..Len(wave) |->
        wave[i] + (IF i > delay_frames
                   THEN TruncDiv(wave[i - delay_frames] * ReverbDecayTenths, 10)
                   ELSE 0)]

\* max(abs(min(reverb_waveform)), abs(max(reverb_waveform)))
MaxAmplitude(wave) ==
    CHOOSE m \in {Abs(wave[i]) : i \in 1..Len(wave)} :
        \A i \in 1..Len(wave) : Abs(wave[i]) <= m

\* Abs(sample) * NormalizedPeak divided by max_amplitude, as quotient and
\* remainder; the product is taken in two steps to stay within 32 bits
PeakQuotient(sample, max_amplitude) ==
    LET thousands == NormalizedPeak \div 1000
        q1 == (Abs(sample) * 1000) \div max_amplitude
        r1 == (Abs(sample) * 1000) % max_amplitude
    IN  [quotient  |-> q1 * thousands + (r1 * thousands) \div max_amplitude,
         remainder |-> (r1 * thousands) % max_amplitude]

\* int(sample * scale_factor), scale_factor = 32000 / max_amplitude in
\* double precision: where sample * 32000 / max_amplitude is a whole number
\* the rounded product may also fall just under it
ScaledSample(sample, max_amplitude) ==
    LET pq    == PeakQuotient(sample, max_amplitude)
        exact == Sign(sample) * pq.quotient
    IN  IF sample # 0 /\ pq.remainder = 0
        THEN {exact, exact - Sign(exact)}
        ELSE {exact}

\* the buffers whose sample i is one of choices[i]
RECURSIVE BuffersOf(_)
BuffersOf(choices) ==
    IF choices = <<>> THEN {<<>>}
    ELSE {<<first>> \o rest : first \in Head(choices), rest \in BuffersOf(Tail(choices))}

\* the normalization left out
NormalizedAsIs(wave) == {wave}

\* lines 219-224: the buffers the normalization can produce
Normalized(wave) ==
    IF MaxAmplitude(wave) > 0
    THEN LET peak == MaxAmplitude(wave)
         IN  BuffersOf([i \in 1..Len(wave) |-> ScaledSample(wave[i], peak)])
    ELSE {wave}

\* array.array('h', samples) raises OverflowError outside the 16-bit range
FitsInt16(samples) ==
    \A i \in 1..Len(samples) : samples[i] >= 0 - Int16Max - 1 /\ samples[i] <= Int16Max

\* generate_musical_theme from line 208 on
generate_musical_theme ==
    /\ wv_pc = "summed"
    /\ \E out \in Normalized(Reverb(waveform)) :
          /\ reverb_waveform' = out
          /\ wv_pc' = IF FitsInt16(out) THEN "returned" ELSE "raised"
    /\ UNCHANGED <<waveform, segvars, pipevars, showvars, musicvars, voicevars, latevars>>

InitWave ==
    /\ wv_pc = "summed"
    /\ waveform \in [1..MaxFrames -> VoiceSums]
    /\ reverb_waveform = <<>>
    /\ PipeIdle /\ SegIdle /\ ShowIdle /\ MusicIdle /\ VoiceIdle /\ LateIdle

NextWave == generate_musical_theme

SpecWave == InitWave /\ [][NextWave]_vars

\* C17: for every theme every sample of the waveform generate_musical_theme
\* returns (after the voices are summed, the reverb and the normalization)
\* is at most the 16-bit maximum 32767 in absolute value, in fact at most
\* 32000, whatever the number of summed voices; an all-zero waveform is
\* left unchanged.
C17_NormalizedPeak ==
    /\ wv_pc # "raised"
    /\ (wv_pc = "returned") =>
          /\ Len(reverb_waveform) = Len(waveform)
          /\ \A i \in 1..Len(reverb_waveform) :
                /\ Abs(reverb_waveform[i]) <= 32000
                /\ Abs(reverb_waveform[i]) <= 32767
          /\ (\A i \in 1..Len(waveform) : waveform[i] = 0) => reverb_waveform = waveform

\* a returned waveform whose summed voices went beyond the 16-bit range and
\* whose loudest sample now sits at 32000
C17_Witness ==
    /\ wv_pc = "returned"
    /\ \E i \in 1..Len(waveform) : Abs(Reverb(waveform)[i]) > 32767
    /\ \E i \in 1..Len(reverb_waveform) : Abs(reverb_waveform[i]) = 32000

(***************************************************************************)
(* SpecVoice: text_to_speech_tone and generate_fallback_audio called on a  *)
(* narration text, with other synthesis drawing from the global random     *)
(* generator in between.                                                   *)
(***************************************************************************)
SevenWords == <<"a", " ", "a", " ", "a", " ", "a", " ", "a", " ", "a", " ", "a", " ">>

VoicePieces == {<<"a">>, <<" ", "a">>, SevenWords}

RECURSIVE VoiceTextsOf(_)
VoiceTextsOf(n) ==
    IF n = 0 THEN {<<>>}
    ELSE LET shorter == VoiceTextsOf(n - 1)
         IN  shorter \cup {s \o p : s \in shorter, p \in VoicePieces}

VoiceTexts == VoiceTextsOf(MaxVoicePieces)

\* ord(c)
Ord(c) == CASE c = "a" -> 97
            [] c = " " -> 32

\* seed = sum(ord(c) for c in text[:20])
RECURSIVE SumOrd(_)
SumOrd(s) == IF s = <<>> THEN 0 ELSE Ord(Head(s)) + SumOrd(Tail(s))

SeedOfText(text) == SumOrd(Take(text, SeedPrefix))

\* the call of random.seed left out: the generator stays as it was
SeededNot(seed, before) == before

\* random.seed(seed): the state of the generator is a function of the seed
Seeded(seed, before) == seed % RngModulus

\* a draw of the global generator (random.uniform) moves it to its next state
NextRng(state) == (state + 1) % RngModulus

\* the first n draws from a state: random.uniform for base_freq, then the
\* noise of the first samples
RECURSIVE Draws(_, _)
Draws(state, n) ==
    IF n = 0 THEN <<>> ELSE <<NextRng(state)>> \o Draws(NextRng(state), n - 1)

\* the word counts up to 59 for which 44100 * (words / 150 * 60) falls just
\* under the whole number in double precision
FramesRoundedDown == {9, 18, 23, 27, 36, 41, 46, 54, 59}

\* num_samples = int(sample_rate * duration)
NumSamples(words) ==
    LET whole == (SampleRate * VoiceDuration(words)) \div 10
    IN  IF words \in FramesRoundedDown THEN whole - 1 ELSE whole

\* what text_to_speech_tone(text, output_file) writes when the generator
\* is in state "before": the stereo file of num_samples frames
ToneWave(text, before) ==
    LET random_values == Draws(Seeded(SeedOfText(text), before), MaxDraws)
    IN  [kind      |-> "tone",
         channels  |-> 2,
         frames    |-> NumSamples(Len(Words(text))),
         base_freq |-> random_values[1],
         noise     |-> Tail(random_values)]

\* the generator after text_to_speech_tone has drawn base_freq and the noise
RngAfterTone(text, before) ==
    Draws(Seeded(SeedOfText(text), before), MaxDraws)[MaxDraws]

\* generate_silent_wave_file(output_file) with its default duration=5.0
generate_silent_wave_file_default(duration) ==
    [kind |-> "silent", channels |-> 2, frames |-> (SampleRate * 50) \div 10,
     base_freq |-> 0, noise |-> <<>>]

\* generate_silent_wave_file(output_file, duration): stereo, all zeros
generate_silent_wave_file(duration) ==
    [kind |-> "silent", channels |-> 2, frames |-> (SampleRate * duration) \div 10,
     base_freq |-> 0, noise |-> <<>>]

NoVoiceFile == [kind |-> "absent", channels |-> 0, frames |-> 0, base_freq |-> 0,
                noise |-> <<>>]

\* the first call and the latest call of text_to_speech_tone, each with its
\* text, the state of the generator before it and what it wrote
Recorded(calls, call) ==
    IF Len(calls) < 2 THEN Append(calls, call) ELSE <<calls[1], call>>

\* generate_musical_theme, the image synthesizer or random.sample of the
\* segmenter draws from the global generator
OtherSynthesis ==
    /\ vo_pc = "ready"
    /\ rng' = NextRng(rng)
    /\ UNCHANGED <<vo_pc, vo_text, tts_calls, fb_result, fb_file,
                   segvars, pipevars, showvars, musicvars, wavevars, latevars>>

\* text_to_speech_tone(vo_text, output_file) without a duration
text_to_speech_tone ==
    /\ vo_pc = "ready"
    /\ tts_calls' = Recorded(tts_calls, [text |-> vo_text, before |-> rng,
                                         wave |-> ToneWave(vo_text, rng)])
    /\ rng' = RngAfterTone(vo_text, rng)
    /\ UNCHANGED <<vo_pc, vo_text, fb_result, fb_file,
                   segvars, pipevars, showvars, musicvars, wavevars, latevars>>

\* generate_fallback_audio(vo_text, output_file): os.makedirs and
\* text_to_speech_tone inside the try; when one of them raises,
\* generate_silent_wave_file(output_file, duration=3.0) inside the second
\* try; None when that raises too
generate_fallback_audio ==
    /\ vo_pc = "ready"
    /\ fb_result.value = "pending"
    /\ \E tone \in {"ok", "raised early", "raised late"} :
       \E silent_ok \in Outcomes(tone # "ok") :
          /\ rng' = IF tone = "raised early" THEN rng ELSE RngAfterTone(vo_text, rng)
          /\ tts_calls' = IF tone = "ok"
                          THEN Recorded(tts_calls,
                                        [text |-> vo_text, before |-> rng,
                                         wave |-> ToneWave(vo_text, rng)])
                          ELSE tts_calls
          /\ fb_file' = IF tone = "ok" THEN ToneWave(vo_text, rng)
                        ELSE IF silent_ok THEN generate_silent_wave_file(FallbackSilence)
                        ELSE fb_file
          /\ fb_result' = [value  |-> IF tone = "ok" \/ silent_ok THEN "path" ELSE "none",
                           tone   |-> IF tone = "ok" THEN "ok" ELSE "raised",
                           silent |-> IF tone = "ok" THEN "not called"
                                      ELSE IF silent_ok THEN "ok" ELSE "raised"]
    /\ UNCHANGED <<vo_pc, vo_text, segvars, pipevars, showvars, musicvars, wavevars, latevars>>

InitVoice ==
    /\ vo_pc = "ready"
    /\ vo_text \in VoiceTexts
    /\ rng \in 0..(RngModulus - 1)
    /\ tts_calls = <<>>
    /\ fb_result = [value |-> "pending", tone |-> "not called", silent |-> "not called"]
    /\ fb_file = NoVoiceFile
    /\ PipeIdle /\ SegIdle /\ ShowIdle /\ MusicIdle /\ WaveIdle /\ LateIdle

NextVoice == OtherSynthesis \/ text_to_speech_tone \/ generate_fallback_audio

SpecVoice == InitVoice /\ [][NextVoice]_vars

(***************************************************************************)
(* Claims about the voice synthesis, checked under SpecVoice.              *)
(***************************************************************************)
\* the number of whitespace-separated words of a text
WordCount(text) ==
    Cardinality({j \in 1..Len(text) :
                    ~IsSpace(text[j]) /\ (j = 1 \/ IsSpace(text[j - 1]))})

\* C18: without a duration override text_to_speech_tone writes a waveform
\* of int(44100 * max(3.0, words / 150 * 60)) frames, words being the number
\* of whitespace-separated words of the text: 3.0 s (132300 frames) for up
\* to 7 words and 0.4 s (17640 frames) per word from 8 words on, within one
\* sample frame.
C18_FramesFollowWordCount ==
    \A c \in 1..Len(tts_calls) :
        LET words  == WordCount(tts_calls[c].text)
            frames == tts_calls[c].wave.frames
        IN  /\ words <= 7 => frames = 132300
            /\ words >= 8 => Abs(frames - 17640 * words) <= 1
            /\ frames >= 132300

\* a call on a text of 9 words
C18_Witness ==
    /\ Len(tts_calls) >= 1
    /\ WordCount(tts_calls[1].text) = 9
    /\ tts_calls[1].wave.frames = 158759

\* C19: two calls of text_to_speech_tone with identical text (and no
\* duration override) produce identical sample sequences, whatever the state
\* of the global random generator before each call and whatever other
\* synthesis ran in between.
C19_SameTextSameSamples ==
    \A c \in 1..Len(tts_calls), d \in 1..Len(tts_calls) :
        tts_calls[c].text = tts_calls[d].text => tts_calls[c].wave = tts_calls[d].wave

\* two calls on the same text, the generator in another state before the
\* second call than before the first and than the first call left it in
C19_Witness ==
    /\ Len(tts_calls) = 2
    /\ tts_calls[1].text = tts_calls[2].text
    /\ tts_calls[1].text # <<>>
    /\ tts_calls[2].before # tts_calls[1].before
    /\ tts_calls[2].before # RngAfterTone(tts_calls[1].text, tts_calls[1].before)
    /\ tts_calls[1].wave = tts_calls[2].wave

\* C20: generate_fallback_audio never raises: when the tone synthesis fails
\* it writes a silent stereo WAV of exactly 3.0 s (132300 frames at 44100 Hz)
\* to the output path and returns that path; it returns None only when
\* writing the silent file fails too.
C20_SilentFallback ==
    /\ fb_result.value \in {"pending", "path", "none"}
    /\ (fb_result.tone = "raised" /\ fb_result.silent = "ok") =>
          /\ fb_result.value = "path"
          /\ fb_file.kind = "silent"
          /\ fb_file.channels = 2
          /\ fb_file.frames = 132300
    /\ (fb_result.value = "none") <=> (fb_result.tone = "raised" /\ fb_result.silent = "raised")
    /\ (fb_result.tone = "ok") => (fb_result.value = "path" /\ fb_file.kind = "tone")

\* the tone synthesis raised and the silent file was written
C20_Witness ==
    /\ fb_result.value = "path"
    /\ fb_result.tone = "raised"
    /\ fb_file.kind = "silent"
    /\ vo_text # <<>>

(***************************************************************************)
(* SpecTone: one call of text_to_speech_tone(text, output_file, duration), *)
(* followed sample by sample.  Times are in milliseconds, factors in       *)
(* thousandths.                                                            *)
(***************************************************************************)
Word_joy == <<"j", "o", "y">>
Word_exciting == <<"e", "x", "c", "i", "t", "i", "n", "g">>
Word_thrill == <<"t", "h", "r", "i", "l", "l">>
Word_sorrow == <<"s", "o", "r", "r", "o", "w">>
Word_tragic == <<"t", "r", "a", "g", "i", "c">>
Word_gloomy == <<"g", "l", "o", "o", "m", "y">>
Word_tension == <<"t", "e", "n", "s", "i", "o", "n">>
Word_fear == <<"f", "e", "a", "r">>
Word_scary == <<"s", "c", "a", "r", "y">>
Word_danger == <<"d", "a", "n", "g", "e", "r">>
Text_Happy == <<"H", "a", "p", "p", "y", " ">>
Text_sad == <<"s", "a", "d", " ">>
Text_fear == <<"f", "e", "a", "r", " ">>
Text_plain == <<"a", "n", " ">>
PositiveWords == <<Key_happy, Word_joy, Word_exciting, Word_thrill>>
NegativeWords == <<Key_sad, Word_sorrow, Word_tragic, Word_gloomy>>
FearWords     == <<Word_tension, Word_fear, Word_scary, Word_danger>>

\* any(word in lower_text for word in keywords)
AnyWordIn(keywords, lower_text) ==
    \E w \in 1..Len(keywords) : IsSubstring(keywords[w], lower_text)

\* the if / elif chain with positive and negative exchanged
PatternOfNegativeFirst(text) ==
    LET lower_text == Lower(text)
    IN  IF AnyWordIn(NegativeWords, lower_text) THEN "falling"
        ELSE IF AnyWordIn(PositiveWords, lower_text) THEN "rising"
        ELSE IF AnyWordIn(FearWords, lower_text) THEN "wavering"
        ELSE "neutral"

\* pattern, as the if / elif chain of text_to_speech_tone sets it
PatternOf(text) ==
    LET lower_text == Lower(text)
    IN  IF AnyWordIn(PositiveWords, lower_text) THEN "rising"
        ELSE IF AnyWordIn(NegativeWords, lower_text) THEN "falling"
        ELSE IF AnyWordIn(FearWords, lower_text) THEN "wavering"
        ELSE "neutral"

\* the arguments of random.uniform for base_freq
FreqBand(pattern) ==
    CASE pattern = "rising"   -> <<350, 440>>
      [] pattern = "falling"  -> <<200, 280>>
      [] pattern = "wavering" -> <<300, 350>>
      [] pattern = "neutral"  -> <<280, 320>>

TonePieces == {Text_Happy, Text_sad, Text_fear, Text_plain}

RECURSIVE ToneTextsOf(_)
ToneTextsOf(n) ==
    IF n = 0 THEN {<<>>}
    ELSE LET shorter == ToneTextsOf(n - 1)
         IN  shorter \cup {s \o p : s \in shorter, p \in TonePieces}

ToneTexts == ToneTextsOf(MaxTonePieces)

\* the duration argument: None, or a number of tenths of a second
ToneDurations == {<<>>, <<0>>, <<1>>, <<MaxToneTenths>>}

\* duration = max(3.0, words / 150 * 60) when the argument is None
ToneDuration(text, duration) ==
    IF duration = <<>> THEN VoiceDuration(Len(Words(text))) ELSE duration[1]

\* num_samples = int(sample_rate * duration), at ToneRate samples a second
ToneSamples(tenths) == (ToneRate * tenths) \div 10

\* time_point = i / sample_rate
TimePoint(i) == (i * 1000) \div ToneRate

\* math.sin over one turn, looked up in steps of an eighth of a turn
SineTable == <<0, 707, 1000, 707, 0, -707, -1000, -707>>

Sine(turn) == SineTable[((turn % 1000) * 8) \div 1000 + 1]

\* math.sin(2 * pi * frequency * time_point) of the carrier: the phase
\* follows the random base_freq; the two extremes are followed
CarrierSines == {-1000, 1000}

\* random.uniform(-0.03 * amplitude, 0.03 * amplitude)
NoiseValues == {0 - (3 * ToneAmplitude) \div 100, (3 * ToneAmplitude) \div 100}

\* syllable_amp
SyllableAmp(time_point) ==
    LET syllable_position == (time_point * SyllableRate) % 1000
    IN  IF syllable_position < 400
        THEN 950 + TruncDiv(50 * Sine((syllable_position * 1000) \div 400), 1000)
        ELSE (850 * (1000 - syllable_position)) \div 600

\* articulation with 1.5 in the place of 0.15
ArticulationLoud(time_point) ==
    IF ((time_point * 2) \div 1000) % 2 = 0
    THEN TruncDiv(1500 * Sine(12 * time_point), 1000)
    ELSE 0

\* articulation
Articulation(time_point) ==
    IF ((time_point * 2) \div 1000) % 2 = 0
    THEN TruncDiv(150 * Sine(12 * time_point), 1000)
    ELSE 0

\* fade_factor, for a duration in milliseconds
FadeFactor(time_point, duration) ==
    LET fade_duration == Min(300, duration \div 10)
    IN  IF time_point < fade_duration
        THEN (time_point * 1000) \div fade_duration
        ELSE IF time_point > duration - fade_duration
        THEN ((duration - time_point) * 1000) \div fade_duration
        ELSE 1000

\* int(sample_value): carrier, articulation and noise, then the fade
SampleValue(time_point, duration, carrier_sine, noise) ==
    LET envelope     == (SyllableAmp(time_point) * ToneAmplitude) \div 1000
        carrier      == TruncDiv(envelope * carrier_sine, 1000)
        articulation == TruncDiv(Articulation(time_point) * ToneAmplitude, 1000)
        sample_value == carrier + articulation + noise
    IN  TruncDiv(sample_value * FadeFactor(time_point, duration), 1000)

\* lines 22-55: duration, seed, pattern, base_freq, num_samples, audio_data
ToneCall ==
    /\ tn_pc = "call"
    /\ tn_pattern' = PatternOf(tn_text)
    /\ \E base_freq \in {FreqBand(PatternOf(tn_text))[1], FreqBand(PatternOf(tn_text))[2]} :
          tn_base_freq' = base_freq
    /\ tn_duration' = <<ToneDuration(tn_text, tn_duration)>>
    /\ tn_pc' = "samples"
    /\ UNCHANGED <<tn_text, tn_i, tn_stored, besides_tone>>

\* one turn of the loop of lines 58-112: audio_data[i] = int(sample_value),
\* which raises OverflowError when the value does not fit array('h')
ToneSample ==
    /\ tn_pc = "samples"
    /\ tn_i < ToneSamples(tn_duration[1])
    /\ \E carrier_sine \in CarrierSines, noise \in NoiseValues :
          LET value == SampleValue(TimePoint(tn_i), 100 * tn_duration[1],
                                   carrier_sine, noise)
          IN  IF FitsInt16(<<value>>)
              THEN /\ tn_stored' = <<value>>
                   /\ tn_i' = tn_i + 1
                   /\ tn_pc' = tn_pc
              ELSE /\ tn_pc' = "raised"
                   /\ UNCHANGED <<tn_i, tn_stored>>
    /\ UNCHANGED <<tn_text, tn_duration, tn_pattern, tn_base_freq, besides_tone>>

\* lines 114-139: the mono file, the stereo file, shutil.move
ToneWrite ==
    /\ tn_pc = "samples"
    /\ tn_i = ToneSamples(tn_duration[1])
    /\ tn_pc' = "written"
    /\ UNCHANGED <<tn_text, tn_duration, tn_pattern, tn_base_freq, tn_i, tn_stored,
                   besides_tone>>

InitTone ==
    /\ tn_pc = "call"
    /\ tn_text \in ToneTexts
    /\ tn_duration \in ToneDurations
    /\ tn_pattern = "none"
    /\ tn_base_freq = 0
    /\ tn_i = 0
    /\ tn_stored = <<>>
    /\ IdleBesidesTone

NextTone == ToneCall \/ ToneSample \/ ToneWrite

SpecTone == InitTone /\ [][NextTone]_vars

(***************************************************************************)
(* Claims about the tone synthesis, checked under SpecTone.                *)
(***************************************************************************)
\* C21: every sample value that text_to_speech_tone stores fits in a signed
\* 16-bit integer, for every text and every duration: carrier, articulation
\* and noise sum to at most 1.18 times the amplitude of 20000 (23600) before
\* the fade, so the store never overflows and the call never raises there.
C21_SamplesFitInt16 ==
    /\ tn_pc # "raised"
    /\ \A j \in 1..Len(tn_stored) :
          /\ tn_stored[j] >= -32768 /\ tn_stored[j] <= 32767
          /\ Abs(tn_stored[j]) <= 23600

\* a sample in the middle of the tone, where the fade factor is 1 and
\* carrier, articulation and noise all push the same way
C21_Witness ==
    /\ tn_pc = "samples"
    /\ tn_stored # <<>>
    /\ Abs(tn_stored[1]) >= 23000

\* C28: text_to_speech_tone picks its pattern by the first keyword class
\* that matches, in the order positive, negative, fear: rising with a base
\* frequency in 350..440, else falling with 200..280, else wavering with
\* 300..350, else neutral with 280..320; exactly one pattern for every text.
C28_PatternByFirstClass ==
    tn_pc \in {"samples", "written"} =>
        LET lower_text == Lower(tn_text)
            positive == AnyWordIn(PositiveWords, lower_text)
            negative == AnyWordIn(NegativeWords, lower_text)
            fear     == AnyWordIn(FearWords, lower_text)
            InBand(lo, hi) == tn_base_freq >= lo /\ tn_base_freq <= hi
        IN  /\ tn_pattern \in {"rising", "falling", "wavering", "neutral"}
            /\ positive => (tn_pattern = "rising" /\ InBand(350, 440))
            /\ (~positive /\ negative) => (tn_pattern = "falling" /\ InBand(200, 280))
            /\ (~positive /\ ~negative /\ fear) =>
                  (tn_pattern = "wavering" /\ InBand(300, 350))
            /\ (~positive /\ ~negative /\ ~fear) =>
                  (tn_pattern = "neutral" /\ InBand(280, 320))

\* a text that names a negative keyword before a positive one
C28_Witness ==
    /\ tn_pc = "written"
    /\ tn_text = Text_sad \o Text_Happy
    /\ tn_pattern = "rising"
    /\ tn_base_freq = 440

(***************************************************************************)
(* SpecImage: one scene handed to generate_images_for_scenes, or           *)
(* generate_placeholder_image called on its own with a tone.               *)
(***************************************************************************)
Tone_joyful == <<"j", "o", "y", "f", "u", "l">>
Tone_somber == <<"s", "o", "m", "b", "e", "r">>
Tone_adventurous == <<"a", "d", "v", "e", "n", "t", "u", "r", "o", "u", "s">>
Tone_dramatic == <<"d", "r", "a", "m", "a", "t", "i", "c">>
Tone_TENSE == <<"T", "E", "N", "S", "E">>
Tone_Joyful == <<"J", "o", "y", "f", "u", "l">>
ExteriorTerms ==
    <<<<"e", "x", "t", "e", "r", "i", "o", "r">>,
      <<"o", "u", "t", "s", "i", "d", "e">>,
      <<"o", "u", "t", "d", "o", "o", "r">>,
      <<"n", "a", "t", "u", "r", "e">>,
      <<"f", "o", "r", "e", "s", "t">>,
      <<"m", "o", "u", "n", "t", "a", "i", "n">>,
      <<"f", "i", "e", "l", "d">>,
      <<"l", "a", "n", "d", "s", "c", "a", "p", "e">>>>
MagicalTerms ==
    <<<<"m", "a", "g", "i", "c", "a", "l">>,
      <<"f", "a", "n", "t", "a", "s", "y">>,
      <<"m", "y", "s", "t", "i", "c", "a", "l">>,
      <<"e", "t", "h", "e", "r", "e", "a", "l">>,
      <<"o", "t", "h", "e", "r", "w", "o", "r", "l", "d", "l", "y">>>>
ActionTerms ==
    <<<<"a", "c", "t", "i", "o", "n">>,
      <<"r", "u", "n", "n", "i", "n", "g">>,
      <<"f", "i", "g", "h", "t">>,
      <<"b", "a", "t", "t", "l", "e">>,
      <<"m", "o", "v", "i", "n", "g">>>>
SittingTerms ==
    <<<<"s", "i", "t", "t", "i", "n", "g">>,
      <<"s", "e", "a", "t", "e", "d">>,
      <<"r", "e", "s", "t", "i", "n", "g">>>>
EmptyTerms ==
    <<<<"l", "a", "n", "d", "s", "c", "a", "p", "e">>,
      <<"e", "m", "p", "t", "y">>,
      <<"d", "e", "s", "e", "r", "t", "e", "d">>,
      <<"a", "b", "a", "n", "d", "o", "n", "e", "d">>,
      <<"s", "t", "i", "l", "l", " ", "l", "i", "f", "e">>>>
Prompt_Tense == <<"T", "e", "n", "s", "e", " ">>
Prompt_dramatic == <<"d", "r", "a", "m", "a", "t", "i", "c", " ">>
Prompt_peaceful == <<"p", "e", "a", "c", "e", "f", "u", "l", " ">>
Prompt_mountain == <<"m", "o", "u", "n", "t", "a", "i", "n", " ">>
Prompt_town == <<"t", "o", "w", "n", " ">>
Term_mountain == <<"m", "o", "u", "n", "t", "a", "i", "n">>
Term_forest == <<"f", "o", "r", "e", "s", "t">>
Term_nature == <<"n", "a", "t", "u", "r", "e">>
Term_interior == <<"i", "n", "t", "e", "r", "i", "o", "r">>
Term_exterior == <<"e", "x", "t", "e", "r", "i", "o", "r">>
\* tone_palettes, in the order of the dictionary
tone_palettes ==
    <<[tone   |-> Key_mysterious,
       bg     |-> <<<<20, 0, 40>>, <<60, 30, 110>>>>,
       fg     |-> <<<<120, 0, 200>>, <<200, 150, 255>>, <<80, 30, 80>>>>,
       accent |-> <<<<0, 200, 255>>, <<255, 50, 200>>>>],
      [tone   |-> Tone_joyful,
       bg     |-> <<<<100, 200, 255>>, <<200, 255, 220>>>>,
       fg     |-> <<<<255, 200, 0>>, <<255, 150, 0>>, <<0, 180, 120>>>>,
       accent |-> <<<<255, 100, 100>>, <<255, 50, 50>>>>],
      [tone   |-> Tone_somber,
       bg     |-> <<<<50, 50, 70>>, <<80, 80, 120>>>>,
       fg     |-> <<<<130, 130, 180>>, <<70, 70, 70>>, <<120, 120, 170>>>>,
       accent |-> <<<<200, 200, 255>>, <<150, 120, 200>>>>],
      [tone   |-> Key_tense,
       bg     |-> <<<<70, 10, 10>>, <<150, 30, 30>>>>,
       fg     |-> <<<<200, 50, 30>>, <<100, 0, 0>>, <<150, 50, 50>>>>,
       accent |-> <<<<255, 200, 50>>, <<255, 150, 0>>>>],
      [tone   |-> Key_romantic,
       bg     |-> <<<<150, 50, 100>>, <<255, 200, 220>>>>,
       fg     |-> <<<<255, 150, 150>>, <<200, 100, 150>>, <<255, 200, 180>>>>,
       accent |-> <<<<255, 220, 200>>, <<255, 150, 200>>>>],
      [tone   |-> Tone_adventurous,
       bg     |-> <<<<0, 50, 0>>, <<100, 150, 100>>>>,
       fg     |-> <<<<150, 200, 50>>, <<200, 180, 0>>, <<120, 100, 0>>>>,
       accent |-> <<<<255, 200, 0>>, <<200, 255, 100>>>>],
      [tone   |-> Tone_dramatic,
       bg     |-> <<<<20, 0, 40>>, <<80, 10, 30>>>>,
       fg     |-> <<<<150, 0, 0>>, <<50, 0, 100>>, <<100, 50, 50>>>>,
       accent |-> <<<<255, 200, 0>>, <<200, 0, 0>>>>],
      [tone   |-> Tone_peaceful,
       bg     |-> <<<<50, 100, 200>>, <<200, 240, 255>>>>,
       fg     |-> <<<<100, 200, 255>>, <<150, 200, 200>>, <<100, 180, 200>>>>,
       accent |-> <<<<255, 255, 200>>, <<200, 255, 255>>>>]>>

\* the palette of an entry of tone_palettes
PaletteAt(n) ==
    [bg |-> tone_palettes[n].bg, fg |-> tone_palettes[n].fg,
     accent |-> tone_palettes[n].accent]

\* dict.get(key, tone_palettes["mysterious"])
PaletteGet(key) ==
    IF \E n \in 1..Len(tone_palettes) : tone_palettes[n].tone = key
    THEN PaletteAt(CHOOSE n \in 1..Len(tone_palettes) : tone_palettes[n].tone = key)
    ELSE PaletteAt(1)

\* the lookup without tone.lower()
get_tone_colors_as_written(tone) == PaletteGet(tone)

\* get_tone_colors(tone)
get_tone_colors(tone) == PaletteGet(Lower(tone))

\* tone_keywords of generate_image, in the order of the list
tone_keywords ==
    <<Key_mysterious, Tone_joyful, Tone_somber, Key_tense, Key_romantic,
      Tone_adventurous, Tone_dramatic, Tone_peaceful>>

\* generate_image: the first keyword of tone_keywords found in the
\* lower-cased prompt, "mysterious" when there is none
ToneOfPrompt(prompt) ==
    LET lowered == Lower(prompt)
        found   == {n \in 1..Len(tone_keywords) : IsSubstring(tone_keywords[n], lowered)}
    IN  IF found = {} THEN Key_mysterious
        ELSE tone_keywords[CHOOSE n \in found : \A other \in found : n <= other]

\* analyze_scene_type(description)
analyze_scene_type(description) ==
    LET description_lower == Lower(description)
    IN  [setting_type   |-> IF AnyWordIn(ExteriorTerms, description_lower) THEN "exterior"
                            ELSE IF AnyWordIn(MagicalTerms, description_lower) THEN "magical"
                            ELSE "interior",
         character_pose |-> IF AnyWordIn(ActionTerms, description_lower) THEN "action"
                            ELSE IF AnyWordIn(SittingTerms, description_lower) THEN "sitting"
                            ELSE "standing",
         has_character  |-> ~AnyWordIn(EmptyTerms, description_lower)]

\* the setting_type strings analyze_scene_type can return
SettingText(setting_type) ==
    CASE setting_type = "exterior" -> Term_exterior
      [] setting_type = "interior" -> Term_interior
      [] setting_type = "magical"  -> Key_magical

\* draw_setting(draw, img_width, img_height, setting_type, colors): the
\* three background elements of an exterior setting are mountains when the
\* setting_type string holds mountain, forest or nature, else buildings
draw_setting(setting_type) ==
    LET lowered == Lower(SettingText(setting_type))
    IN  IF IsSubstring(Term_exterior, lowered)
        THEN IF \/ IsSubstring(Term_mountain, lowered)
                \/ IsSubstring(Term_forest, lowered)
                \/ IsSubstring(Term_nature, lowered)
             THEN "mountain"
             ELSE "building"
        ELSE "none"

PromptPieces == {Prompt_Tense, Prompt_dramatic, Prompt_peaceful, Prompt_mountain,
                 Prompt_town}

RECURSIVE ImagePromptsOf(_)
ImagePromptsOf(n) ==
    IF n = 0 THEN {<<>>}
    ELSE LET shorter == ImagePromptsOf(n - 1)
         IN  shorter \cup {s \o p : s \in shorter, p \in PromptPieces}

ImagePrompts == ImagePromptsOf(MaxImagePieces)

\* the tone field of a scene: the vocabulary of the segmenter, two of its
\* entries in capitals, "neutral" of the single-scene fallback, and empty
SceneTones == {Key_mysterious, Tone_joyful, Tone_somber, Key_tense, Key_romantic,
               Tone_adventurous, Tone_dramatic, Tone_peaceful,
               Tone_TENSE, Tone_Joyful, Key_neutral, <<>>}

\* generate_images_for_scenes on the scene: generate_image(prompt,
\* output_file) reads the tone off the prompt; the API saves an image, or
\* answers with another status, or raises, or something raises before it
generate_image ==
    /\ im_pc = "call"
    /\ im_via' = "scenes"
    /\ \E api \in {"saved", "status", "raised", "outer"} :
          /\ im_api' = api
          /\ im_tone' = IF api = "outer" THEN Key_mysterious ELSE ToneOfPrompt(im_prompt)
          /\ im_pc' = IF api = "saved" THEN "returned" ELSE "placeholder"
          /\ im_result' = IF api = "saved" THEN "path" ELSE im_result
    /\ UNCHANGED <<im_prompt, im_scene_tone, im_colors, im_setting, im_background,
                   besides_image>>

\* generate_placeholder_image(prompt, output_file, tone=tone) called on its
\* own, with the tone field of the scene
PlaceholderDirect ==
    /\ im_pc = "call"
    /\ im_via' = "direct"
    /\ im_tone' = im_scene_tone
    /\ im_pc' = "placeholder"
    /\ UNCHANGED <<im_prompt, im_scene_tone, im_api, im_colors, im_setting, im_background,
                   im_result, besides_image>>

\* generate_placeholder_image: palette, gradient, create_scene_elements
\* (get_tone_colors, analyze_scene_type, draw_setting), save; None when it
\* raises inside the last-resort handler of generate_image
generate_placeholder_image ==
    /\ im_pc = "placeholder"
    /\ \E saved \in BOOLEAN :
          /\ im_colors' = get_tone_colors(im_tone)
          /\ im_setting' = analyze_scene_type(Take(im_prompt, SceneTypePrefix))
          /\ im_background' =
                draw_setting(analyze_scene_type(Take(im_prompt, SceneTypePrefix)).setting_type)
          /\ im_result' = IF saved THEN "path" ELSE "none"
    /\ im_pc' = "returned"
    /\ UNCHANGED <<im_prompt, im_scene_tone, im_via, im_api, im_tone, besides_image>>

InitImage ==
    /\ im_pc = "call"
    /\ im_prompt \in ImagePrompts
    /\ im_scene_tone \in SceneTones
    /\ im_via = "none"
    /\ im_api = "none"
    /\ im_tone = <<>>
    /\ im_colors = [bg |-> <<>>, fg |-> <<>>, accent |-> <<>>]
    /\ im_setting = [setting_type |-> "none", character_pose |-> "none",
                     has_character |-> FALSE]
    /\ im_background = "none"
    /\ im_result = "pending"
    /\ IdleBesidesImage

NextImage == generate_image \/ PlaceholderDirect \/ generate_placeholder_image

SpecImage == InitImage /\ [][NextImage]_vars

(***************************************************************************)
(* Claims about the image synthesizer, checked under SpecImage.            *)
(***************************************************************************)
\* str.upper()
Upper(s) ==
    [j \in 1..Len(s) |->
        IF \E u \in 1..Len(LowerCase) : LowerCase[u] = s[j]
        THEN UpperCase[CHOOSE u \in 1..Len(LowerCase) : LowerCase[u] = s[j]]
        ELSE s[j]]

\* the placeholder was drawn
Drawn == im_pc = "returned" /\ im_api # "saved"

\* C22: get_tone_colors is a pure, case-insensitive lookup: the palette it
\* gives for a tone is the one it gives for the same tone in lower and in
\* upper case; each of the 8 known tones gives its own entry of the table,
\* every other tone the mysterious palette; every palette has exactly 2 bg,
\* at least 3 fg and exactly 2 accent colors.
C22_PaletteLookup ==
    Drawn =>
        /\ im_colors = get_tone_colors(Lower(im_tone))
        /\ im_colors = get_tone_colors(Upper(im_tone))
        /\ \A n \in 1..8 : Lower(im_tone) = tone_palettes[n].tone => im_colors = PaletteAt(n)
        /\ (\A n \in 1..8 : Lower(im_tone) # tone_palettes[n].tone) => im_colors = PaletteAt(1)
        /\ \A n \in 1..8, o \in 1..8 : n # o => PaletteAt(n) # PaletteAt(o)
        /\ Len(im_colors.bg) = 2
        /\ Len(im_colors.fg) >= 3
        /\ Len(im_colors.accent) = 2

\* a tone in capitals got the palette of its lower-case entry
C22_Witness ==
    /\ Drawn
    /\ im_tone = Tone_TENSE
    /\ im_colors = PaletteAt(4)

\* C23: when generate_images_for_scenes falls back to the procedural
\* synthesizer for a scene, the palette used is the palette of the scene's
\* tone field, whatever words the image prompt contains.
C23_PaletteOfSceneTone ==
    (Drawn /\ im_via = "scenes") => im_colors = get_tone_colors(im_scene_tone)

\* C25: for a prompt classified as exterior the synthesizer draws mountains
\* as background elements when the prompt contains a nature, forest or
\* mountain keyword, and buildings otherwise.
C25_MountainsForNaturePrompts ==
    (Drawn /\ im_setting.setting_type = "exterior") =>
        LET lowered == Lower(im_prompt)
            natural == \/ IsSubstring(Term_mountain, lowered)
                       \/ IsSubstring(Term_forest, lowered)
                       \/ IsSubstring(Term_nature, lowered)
        IN  im_background = IF natural THEN "mountain" ELSE "building"

(***************************************************************************)
(* SpecAnalyze: the content analyzer that create_advanced_fallback_scenes  *)
(* runs on the stripped story: extract_characters, extract_settings,       *)
(* extract_key_objects, extract_themes, extract_emotions.                  *)
(***************************************************************************)
location_keywords ==
    <<<<"r", "o", "o", "m">>,
      <<"h", "o", "u", "s", "e">>,
      <<"c", "i", "t", "y">>,
      <<"f", "o", "r", "e", "s", "t">>,
      <<"m", "o", "u", "n", "t", "a", "i", "n">>,
      <<"s", "e", "a">>,
      <<"o", "c", "e", "a", "n">>,
      <<"b", "u", "i", "l", "d", "i", "n", "g">>,
      <<"c", "a", "s", "t", "l", "e">>,
      <<"v", "i", "l", "l", "a", "g", "e">>,
      <<"t", "o", "w", "n">>,
      <<"o", "f", "f", "i", "c", "e">>,
      <<"s", "c", "h", "o", "o", "l">>,
      <<"g", "a", "r", "d", "e", "n">>,
      <<"p", "a", "r", "k">>,
      <<"s", "t", "r", "e", "e", "t">>,
      <<"r", "o", "a", "d">>,
      <<"p", "a", "t", "h">>,
      <<"k", "i", "t", "c", "h", "e", "n">>,
      <<"b", "e", "d", "r", "o", "o", "m">>>>

object_keywords ==
    <<<<"b", "o", "o", "k">>,
      <<"l", "e", "t", "t", "e", "r">>,
      <<"k", "e", "y">>,
      <<"d", "o", "o", "r">>,
      <<"w", "i", "n", "d", "o", "w">>,
      <<"p", "h", "o", "n", "e">>,
      <<"s", "w", "o", "r", "d">>,
      <<"r", "i", "n", "g">>,
      <<"n", "e", "c", "k", "l", "a", "c", "e">>,
      <<"c", "l", "o", "c", "k">>,
      <<"w", "a", "t", "c", "h">>,
      <<"g", "u", "n">>,
      <<"k", "n", "i", "f", "e">>,
      <<"c", "a", "r">>,
      <<"p", "h", "o", "t", "o", "g", "r", "a", "p", "h">>,
      <<"p", "i", "c", "t", "u", "r", "e">>,
      <<"p", "a", "i", "n", "t", "i", "n", "g">>,
      <<"b", "o", "x">>,
      <<"c", "h", "a", "i", "r">>,
      <<"t", "a", "b", "l", "e">>,
      <<"b", "e", "d">>,
      <<"l", "a", "m", "p">>,
      <<"l", "i", "g", "h", "t">>,
      <<"f", "i", "r", "e">>,
      <<"w", "a", "t", "e", "r">>,
      <<"f", "o", "o", "d">>,
      <<"d", "r", "i", "n", "k">>>>

theme_keywords ==
    <<[name |-> <<"l", "o", "v", "e">>,
       keywords |-> <<<<"l", "o", "v", "e">>,
                     <<"h", "e", "a", "r", "t">>,
                     <<"r", "o", "m", "a", "n", "c", "e">>,
                     <<"a", "f", "f", "e", "c", "t", "i", "o", "n">>,
                     <<"p", "a", "s", "s", "i", "o", "n">>>>],
      [name |-> <<"f", "r", "i", "e", "n", "d", "s", "h", "i", "p">>,
       keywords |-> <<<<"f", "r", "i", "e", "n", "d">>,
                     <<"f", "r", "i", "e", "n", "d", "s", "h", "i", "p">>,
                     <<"c", "o", "m", "p", "a", "n", "i", "o", "n">>,
                     <<"a", "l", "l", "y">>,
                     <<"c", "o", "m", "r", "a", "d", "e">>>>],
      [name |-> <<"b", "e", "t", "r", "a", "y", "a", "l">>,
       keywords |-> <<<<"b", "e", "t", "r", "a", "y">>,
                     <<"d", "e", "c", "e", "p", "t", "i", "o", "n">>,
                     <<"d", "i", "s", "h", "o", "n", "e", "s", "t", "y">>,
                     <<"t", "r", "e", "a", "c", "h", "e", "r", "y">>>>],
      [name |-> <<"r", "e", "v", "e", "n", "g", "e">>,
       keywords |-> <<<<"r", "e", "v", "e", "n", "g", "e">>,
                     <<"v", "e", "n", "g", "e", "a", "n", "c", "e">>,
                     <<"r", "e", "t", "r", "i", "b", "u", "t", "i", "o", "n">>,
                     <<"p", "a", "y", "b", "a", "c", "k">>>>],
      [name |-> <<"m", "y", "s", "t", "e", "r", "y">>,
       keywords |-> <<<<"m", "y", "s", "t", "e", "r", "y">>,
                     <<"e", "n", "i", "g", "m", "a">>,
                     <<"p", "u", "z", "z", "l", "e">>,
                     <<"s", "e", "c", "r", "e", "t">>,
                     <<"c", "l", "u", "e">>>>],
      [name |-> <<"a", "d", "v", "e", "n", "t", "u", "r", "e">>,
       keywords |-> <<<<"a", "d", "v", "e", "n", "t", "u", "r", "e">>,
                     <<"j", "o", "u", "r", "n", "e", "y">>,
                     <<"q", "u", "e", "s", "t">>,
                     <<"e", "x", "p", "e", "d", "i", "t", "i", "o", "n">>>>],
      [name |-> <<"c", "o", "n", "f", "l", "i", "c", "t">>,
       keywords |-> <<<<"c", "o", "n", "f", "l", "i", "c", "t">>,
                     <<"s", "t", "r", "u", "g", "g", "l", "e">>,
                     <<"b", "a", "t", "t", "l", "e">>,
                     <<"f", "i", "g", "h", "t">>,
                     <<"w", "a", "r">>>>],
      [name |-> <<"t", "r", "a", "n", "s", "f", "o", "r", "m", "a", "t", "i", "o", "n">>,
       keywords |-> <<<<"c", "h", "a", "n", "g", "e">>,
                     <<"t", "r", "a", "n", "s", "f", "o", "r", "m">>,
                     <<"e", "v", "o", "l", "v", "e">>,
                     <<"m", "e", "t", "a", "m", "o", "r", "p", "h", "o", "s", "i", "s">>>>],
      [name |-> <<"r", "e", "d", "e", "m", "p", "t", "i", "o", "n">>,
       keywords |-> <<<<"r", "e", "d", "e", "m", "p", "t", "i", "o", "n">>,
                     <<"f", "o", "r", "g", "i", "v", "e", "n", "e", "s", "s">>,
                     <<"a", "t", "o", "n", "e", "m", "e", "n", "t">>>>],
      [name |-> <<"l", "o", "s", "s">>,
       keywords |-> <<<<"l", "o", "s", "s">>,
                     <<"g", "r", "i", "e", "f">>,
                     <<"m", "o", "u", "r", "n", "i", "n", "g">>,
                     <<"s", "o", "r", "r", "o", "w">>,
                     <<"d", "e", "a", "t", "h">>>>]>>

emotion_keywords ==
    <<[name |-> <<"h", "a", "p", "p", "y">>,
       keywords |-> <<<<"h", "a", "p", "p", "y">>,
                     <<"j", "o", "y">>,
                     <<"d", "e", "l", "i", "g", "h", "t">>,
                     <<"p", "l", "e", "a", "s", "e", "d">>,
                     <<"s", "m", "i", "l", "e">>,
                     <<"l", "a", "u", "g", "h">>>>],
      [name |-> <<"s", "a", "d">>,
       keywords |-> <<<<"s", "a", "d">>,
                     <<"s", "o", "r", "r", "o", "w">>,
                     <<"u", "n", "h", "a", "p", "p", "y">>,
                     <<"m", "i", "s", "e", "r", "a", "b", "l", "e">>,
                     <<"c", "r", "y">>,
                     <<"t", "e", "a", "r">>>>],
      [name |-> <<"a", "n", "g", "r", "y">>,
       keywords |-> <<<<"a", "n", "g", "r", "y">>,
                     <<"f", "u", "r", "y">>,
                     <<"r", "a", "g", "e">>,
                     <<"m", "a", "d">>,
                     <<"i", "r", "r", "i", "t", "a", "t", "e", "d">>,
                     <<"a", "n", "n", "o", "y", "e", "d">>>>],
      [name |-> <<"a", "f", "r", "a", "i", "d">>,
       keywords |-> <<<<"f", "e", "a", "r">>,
                     <<"a", "f", "r", "a", "i", "d">>,
                     <<"s", "c", "a", "r", "e", "d">>,
                     <<"t", "e", "r", "r", "i", "f", "i", "e", "d">>,
                     <<"d", "r", "e", "a", "d">>>>],
      [name |-> <<"s", "u", "r", "p", "r", "i", "s", "e", "d">>,
       keywords |-> <<<<"s", "u", "r", "p", "r", "i", "s", "e">>,
                     <<"a", "s", "t", "o", "n", "i", "s", "h", "e", "d">>,
                     <<"a", "m", "a", "z", "e", "d">>,
                     <<"s", "h", "o", "c", "k", "e", "d">>>>],
      [name |-> <<"d", "i", "s", "g", "u", "s", "t">>,
       keywords |-> <<<<"d", "i", "s", "g", "u", "s", "t">>,
                     <<"r", "e", "p", "u", "l", "s", "e", "d">>,
                     <<"r", "e", "v", "o", "l", "t", "e", "d">>>>],
      [name |-> <<"a", "n", "t", "i", "c", "i", "p", "a", "t", "i", "o", "n">>,
       keywords |-> <<<<"a", "n", "t", "i", "c", "i", "p", "a", "t", "i", "o", "n">>,
                     <<"e", "x", "p", "e", "c", "t", "a", "t", "i", "o", "n">>,
                     <<"e", "x", "c", "i", "t", "e", "m", "e", "n", "t">>>>],
      [name |-> <<"t", "r", "u", "s", "t">>,
       keywords |-> <<<<"t", "r", "u", "s", "t">>,
                     <<"b", "e", "l", "i", "e", "f">>,
                     <<"f", "a", "i", "t", "h">>,
                     <<"c", "o", "n", "f", "i", "d", "e", "n", "c", "e">>>>],
      [name |-> <<"c", "u", "r", "i", "o", "u", "s">>,
       keywords |-> <<<<"c", "u", "r", "i", "o", "u", "s">>,
                     <<"i", "n", "t", "r", "i", "g", "u", "e", "d">>,
                     <<"i", "n", "t", "e", "r", "e", "s", "t", "e", "d">>>>],
      [name |-> <<"c", "o", "n", "f", "u", "s", "e", "d">>,
       keywords |-> <<<<"c", "o", "n", "f", "u", "s", "e", "d">>,
                     <<"p", "e", "r", "p", "l", "e", "x", "e", "d">>,
                     <<"p", "u", "z", "z", "l", "e", "d">>,
                     <<"b", "e", "w", "i", "l", "d", "e", "r", "e", "d">>>>]>>

DefaultCharacters == <<<<"P", "r", "o", "t", "a", "g", "o", "n", "i", "s", "t">>, <<"C", "h", "a", "r", "a", "c", "t", "e", "r">>>>

DefaultSettings == <<<<"i", "n", "t", "e", "r", "i", "o", "r", " ", "l", "o", "c", "a", "t", "i", "o", "n">>, <<"e", "x", "t", "e", "r", "i", "o", "r", " ", "l", "o", "c", "a", "t", "i", "o", "n">>>>

DefaultThemes == <<<<"d", "i", "s", "c", "o", "v", "e", "r", "y">>, <<"c", "h", "a", "l", "l", "e", "n", "g", "e">>>>

DefaultEmotions == <<<<"c", "u", "r", "i", "o", "u", "s">>, <<"d", "e", "t", "e", "r", "m", "i", "n", "e", "d">>>>

\* the sentences the stories of SpecAnalyze are made of
StorySentences ==
    <<<<"h", "e", "r", " ", "j", "o", "y", " ", "l", "e", "d", " ", "F", "a", "y", " ", "t", "o", " ", "a", " ", "k", "e", "y", ".", " ">>,
      <<"t", "h", "e", " ", "s", "a", "d", " ", "A", "n", "n", " ", "l", "o", "s", "t", " ", "a", " ", "r", "i", "n", "g", " ", "i", "n", " ", "w", "a", "r", ".", " ">>,
      <<"a", " ", "m", "a", "d", " ", "B", "o", "b", " ", "h", "i", "t", " ", "t", "h", "e", " ", "d", "o", "o", "r", " ", "o", "f", " ", "t", "h", "e", " ", "h", "o", "u", "s", "e", ".", " ">>,
      <<"i", "n", " ", "f", "e", "a", "r", " ", "C", "y", " ", "h", "i", "d", " ", "a", " ", "b", "o", "x", " ", "i", "n", " ", "t", "h", "e", " ", "p", "a", "r", "k", ".", " ">>,
      <<"w", "e", " ", "t", "r", "u", "s", "t", " ", "D", "a", "n", " ", "w", "i", "t", "h", " ", "t", "h", "e", " ", "b", "o", "o", "k", " ", "o", "f", " ", "l", "o", "v", "e", ".", " ">>,
      <<"s", "o", " ", "a", "m", "a", "z", "e", "d", " ", "E", "v", "e", " ", "s", "a", "w", " ", "a", " ", "l", "a", "m", "p", " ", "i", "n", " ", "t", "o", "w", "n", ".", " ">>,
      <<"I", "t", " ", "w", "a", "s", " ", "o", "k", ".", " ">>,
      <<"m", "y", " ", "f", "r", "i", "e", "n", "d", " ", "G", "u", "s", " ", "k", "e", "p", "t", " ", "a", " ", "s", "e", "c", "r", "e", "t", " ", "c", "l", "o", "c", "k", ".", " ">>>>
\* the story made of the sentences whose numbers are in chosen, in order
RECURSIVE StoryFrom(_, _)
StoryFrom(chosen, n) ==
    IF n > Len(StorySentences) THEN <<>>
    ELSE (IF n \in chosen THEN StorySentences[n] ELSE <<>>) \o StoryFrom(chosen, n + 1)

AnalyzerStories ==
    {Strip(StoryFrom(chosen, 1)) :
        chosen \in SUBSET (1..Min(MaxSentences, Len(StorySentences)))}

\* str.isupper() of one character
IsUpper(c) == \E u \in 1..Len(UpperCase) : UpperCase[u] = c

\* re.sub(r'[^\w\s]', '', word): the punctuation of the model's sentences
Punctuation == {".", ",", "!", "?", "'"}

RECURSIVE CleanWord(_)
CleanWord(word) ==
    IF word = <<>> THEN <<>>
    ELSE (IF Head(word) \in Punctuation THEN <<>> ELSE <<Head(word)>>)
         \o CleanWord(Tail(word))

\* potential_characters: the capitalised words that do not open the text
\* and do not follow a word that ends a sentence, cleaned, longer than 1
RECURSIVE PotentialCharacters(_, _)
PotentialCharacters(words, i) ==
    IF i > Len(words) THEN <<>>
    ELSE LET word       == words[i]
             before     == words[i - 1]
             clean_word == CleanWord(word)
         IN  (IF /\ IsUpper(word[1])
                 /\ before[Len(before)] \notin {".", "!", "?"}
                 /\ Len(clean_word) > 1
              THEN <<clean_word>> ELSE <<>>)
             \o PotentialCharacters(words, i + 1)

\* the keys of char_count, in the order of their first insertion
RECURSIVE CountedOnce(_)
CountedOnce(names) ==
    IF names = <<>> THEN <<>>
    ELSE LET earlier == CountedOnce(SubSeq(names, 1, Len(names) - 1))
             name    == names[Len(names)]
         IN  IF \E j \in 1..Len(earlier) : earlier[j] = name
             THEN earlier ELSE Append(earlier, name)

\* extract_characters(text)
extract_characters(text) ==
    LET found == CountedOnce(PotentialCharacters(Words(text), 2))
    IN  Take(IF found = <<>> THEN DefaultCharacters ELSE found, 5)

\* the number of matches re.findall gives for a keyword with its context:
\* one for every occurrence (the sentences of the model keep the
\* occurrences of a keyword apart, so no match swallows the next one)
Occurrences(keyword, lowered) ==
    Cardinality({i \in 0..(Len(lowered) - Len(keyword)) :
                    SubSeq(lowered, i + 1, i + Len(keyword)) = keyword})

\* matches of the keywords from number n on, each match known by its keyword
RECURSIVE MatchesFrom(_, _, _)
MatchesFrom(keywords, lowered, n) ==
    IF n > Len(keywords) THEN <<>>
    ELSE [j \in 1..Occurrences(keywords[n], lowered) |-> keywords[n]]
         \o MatchesFrom(keywords, lowered, n + 1)

\* extract_settings(text)
extract_settings(text) ==
    LET found == MatchesFrom(location_keywords, Lower(text), 1)
    IN  Take(IF found = <<>> THEN DefaultSettings ELSE found, 3)

\* extract_key_objects(text)
extract_key_objects(text) ==
    Take(MatchesFrom(object_keywords, Lower(text), 1), 5)

\* the names of the classes one of whose keywords occurs in the story
RECURSIVE FoundClasses(_, _, _)
FoundClasses(classes, story_lower, n) ==
    IF n > Len(classes) THEN <<>>
    ELSE (IF AnyWordIn(classes[n].keywords, story_lower)
          THEN <<classes[n].name>> ELSE <<>>)
         \o FoundClasses(classes, story_lower, n + 1)

\* extract_themes(text)
extract_themes(text) ==
    LET found_themes == FoundClasses(theme_keywords, Lower(text), 1)
    IN  Take(IF found_themes = <<>> THEN DefaultThemes ELSE found_themes, 3)

\* extract_emotions(text)
extract_emotions(text) ==
    LET found_emotions == FoundClasses(emotion_keywords, Lower(text), 1)
    IN  IF found_emotions = <<>> THEN DefaultEmotions ELSE found_emotions

ExtractCharacters ==
    /\ an_pc = "characters"
    /\ characters' = extract_characters(an_text)
    /\ an_pc' = "settings"
    /\ UNCHANGED <<an_text, settings, objects, themes, emotions, besides_analyze>>

ExtractSettings ==
    /\ an_pc = "settings"
    /\ settings' = extract_settings(an_text)
    /\ an_pc' = "objects"
    /\ UNCHANGED <<an_text, characters, objects, themes, emotions, besides_analyze>>

ExtractKeyObjects ==
    /\ an_pc = "objects"
    /\ objects' = extract_key_objects(an_text)
    /\ an_pc' = "themes"
    /\ UNCHANGED <<an_text, characters, settings, themes, emotions, besides_analyze>>

ExtractThemes ==
    /\ an_pc = "themes"
    /\ themes' = extract_themes(an_text)
    /\ an_pc' = "emotions"
    /\ UNCHANGED <<an_text, characters, settings, objects, emotions, besides_analyze>>

ExtractEmotions ==
    /\ an_pc = "emotions"
    /\ emotions' = extract_emotions(an_text)
    /\ an_pc' = "done"
    /\ UNCHANGED <<an_text, characters, settings, objects, themes, besides_analyze>>

InitAnalyze ==
    /\ an_pc = "characters"
    /\ an_text \in AnalyzerStories
    /\ characters = <<>>
    /\ settings = <<>>
    /\ objects = <<>>
    /\ themes = <<>>
    /\ emotions = <<>>
    /\ IdleBesidesAnalyze

NextAnalyze ==
    \/ ExtractCharacters
    \/ ExtractSettings
    \/ ExtractKeyObjects
    \/ ExtractThemes
    \/ ExtractEmotions

SpecAnalyze == InitAnalyze /\ [][NextAnalyze]_vars

(***************************************************************************)
(* Claims about the content analyzer, checked under SpecAnalyze.           *)
(***************************************************************************)
\* C24: for every story text each of the five lists of the content analyzer
\* (characters, settings, key objects, themes, emotions) has at most 5
\* items.
C24_ListsCappedAtFive ==
    /\ Len(characters) <= 5
    /\ Len(settings) <= 5
    /\ Len(objects) <= 5
    /\ Len(themes) <= 5
    /\ Len(emotions) <= 5

(***************************************************************************)
(* SpecClip: ensure_audio_duration(audio_clip, target_duration), and the   *)
(* same call repeated on the clip it returned.  A duration is a double:    *)
(* [hundredths |-> h, ulps |-> e] is the double nearest to h / 100, moved  *)
(* by e units in the last place.                                           *)
(***************************************************************************)
NoDuration == [hundredths |-> 0, ulps |-> 0]

\* the double nearest to h / 100
Seconds(h) == [hundredths |-> h, ulps |-> 0]

\* a > b on doubles
Longer(a, b) ==
    \/ a.hundredths > b.hundredths
    \/ a.hundredths = b.hundredths /\ a.ulps > b.ulps

\* audio_clip.duration + (target_duration - audio_clip.duration) in double
\* precision, for a clip of a / 100 seconds and a target of t / 10 seconds:
\* the pairs <<a, t>> where the sum is the double above the target
SumRoundedUp ==
    {<<3, 3>>, <<6, 6>>, <<7, 6>>, <<6, 9>>, <<7, 9>>, <<29, 9>>, <<30, 9>>,
     <<31, 9>>, <<32, 9>>, <<33, 9>>, <<34, 9>>, <<12, 12>>, <<14, 12>>}

\* the pairs <<a, t>> where the sum is the double below the target
SumRoundedDown == {<<18, 9>>, <<19, 9>>, <<20, 9>>, <<13, 12>>}

\* CompositeAudioClip([audio_clip, silence.set_start(audio_clip.duration)]):
\* the duration is the end of the silence, clip.duration + silence.duration.
\* A clip one unit in the last place under the target is padded exactly.
PaddedDuration(clip, target) ==
    IF clip.ulps # 0 THEN Seconds(target)
    ELSE LET pair == <<clip.hundredths, target \div 10>>
         IN  [hundredths |-> target,
              ulps       |-> IF pair \in SumRoundedUp THEN 1
                             ELSE IF pair \in SumRoundedDown THEN -1
                             ELSE 0]

\* the branch of ensure_audio_duration
BranchOf(clip, target) ==
    IF Longer(clip, Seconds(target)) THEN "trim"
    ELSE IF Longer(Seconds(target), clip) THEN "pad"
    ELSE "same"

\* ensure_audio_duration(audio_clip, target_duration): the duration of the
\* clip it returns; subclip(0, target_duration) lasts target_duration - 0
ensure_audio_duration(clip, target) ==
    CASE BranchOf(clip, target) = "trim" -> Seconds(target)
      [] BranchOf(clip, target) = "pad"  -> PaddedDuration(clip, target)
      [] BranchOf(clip, target) = "same" -> clip

EnsureOnce ==
    /\ ea_pc = "call"
    /\ ea_how' = BranchOf(ea_clip, ea_target)
    /\ ea_once' = ensure_audio_duration(ea_clip, ea_target)
    /\ ea_pc' = "once"
    /\ UNCHANGED <<ea_clip, ea_target, ea_twice, besides_clip>>

EnsureAgain ==
    /\ ea_pc = "once"
    /\ ea_twice' = ensure_audio_duration(ea_once, ea_target)
    /\ ea_pc' = "twice"
    /\ UNCHANGED <<ea_clip, ea_target, ea_how, ea_once, besides_clip>>

InitClip ==
    /\ ea_pc = "call"
    /\ ea_clip \in {Seconds(h) : h \in 1..MaxClipHundredths}
    /\ ea_target \in {10 * t : t \in 1..MaxTargetTenths}
    /\ ea_how = "none"
    /\ ea_once = NoDuration
    /\ ea_twice = NoDuration
    /\ IdleBesidesClip

NextClip == EnsureOnce \/ EnsureAgain

SpecClip == InitClip /\ [][NextClip]_vars

(***************************************************************************)
(* Claims about ensure_audio_duration, checked under SpecClip.             *)
(***************************************************************************)
\* C26: for every clip and every target > 0 the clip ensure_audio_duration
\* returns lasts exactly the target (a longer clip trimmed, a shorter one
\* followed by silence, an equal one unchanged), and applying it twice with
\* the same target gives the same duration as applying it once.
C26_ExactTargetDuration ==
    /\ ea_pc \in {"once", "twice"} => ea_once = Seconds(ea_target)
    /\ ea_pc = "twice" => ea_twice = ea_once

(***************************************************************************)
(* SpecDir: generate_voice_for_scenes(scenes, output_dir) and the files of *)
(* output_dir.  A file is [name |-> ..., made |-> ...]: made tells what    *)
(* wrote it, "before" for a file that was there before the call.           *)
(***************************************************************************)
\* f"scene_{i+1}.wav" for the scene with number n = i + 1
SceneWav(n) == [stem |-> "scene", n |-> n, ext |-> "wav"]

\* output_file.replace('.wav', '_stereo.wav')
StereoWav(n) == [stem |-> "scene_stereo", n |-> n, ext |-> "wav"]

\* files a voice directory may hold before the call: the narration of the
\* first scene of an earlier run, in both formats, and a file that is no audio
FilesBefore ==
    {SceneWav(1),
     [stem |-> "scene", n |-> 1, ext |-> "mp3"],
     [stem |-> "notes", n |-> 0, ext |-> "txt"]}

\* file.endswith('.wav') or file.endswith('.mp3')
IsAudioName(name) == name.ext \in {"wav", "mp3"}

NarrationLists == UNION {[1..n -> BOOLEAN] : n \in 0..MaxDirScenes}

\* the directory after open(name, 'w') ... write by the writer made
Written(dir, name, made) ==
    {f \in dir : f.name # name} \cup {[name |-> name, made |-> made]}

\* the directory without the file name
Without(dir, name) == {f \in dir : f.name # name}

\* text_to_speech_tone(text, output_file) up to the place where it stops:
\*   "start"  it raises before wave.open(output_file, 'w')
\*   "mono"   it raises after the mono file is written
\*   "stereo" it raises after the stereo file is written, before shutil.move
\*   "moved"  it returns
ToneStops == {"start", "mono", "stereo", "moved"}

AfterTone(dir, n, stop) ==
    CASE stop = "start"  -> dir
      [] stop = "mono"   -> Written(dir, SceneWav(n), "mono")
      [] stop = "stereo" -> Written(Written(dir, SceneWav(n), "mono"), StereoWav(n), "stereo")
      [] stop = "moved"  -> Written(Without(dir, StereoWav(n)), SceneWav(n), "tone")

\* generate_fallback_audio(narration, output_file): the directory it leaves
\* and whether it returns the path; when the tone synthesis raises it writes
\* the silent file, and returns None when that raises at wave.open
AfterFallbackAudio(dir, n, stop, silent_written) ==
    IF stop = "moved"
    THEN [dir |-> AfterTone(dir, n, stop), path |-> TRUE]
    ELSE IF silent_written
    THEN [dir |-> Written(AfterTone(dir, n, stop), SceneWav(n), "silent"), path |-> TRUE]
    ELSE [dir |-> AfterTone(dir, n, stop), path |-> FALSE]

\* os.makedirs, os.listdir, then the loop that removes every .wav and .mp3:
\* os.remove raises for the files in kept, and the except clause passes
CleanDirectory ==
    /\ vd_pc = "call"
    /\ \E listed \in BOOLEAN :
          IF listed
          THEN /\ \E kept \in SUBSET {f \in vd_dir : IsAudioName(f.name)} :
                     vd_dir' = {f \in vd_dir : ~IsAudioName(f.name)} \cup kept
               /\ vd_pc' = "loop"
          ELSE /\ vd_dir' = vd_dir
               /\ vd_pc' = "raised"
    /\ UNCHANGED <<vd_scenes, vd_i, vd_audio_paths, vd_none, besides_dir>>

\* one turn of the loop over the scenes
VoiceForScene ==
    /\ vd_pc = "loop"
    /\ vd_i < Len(vd_scenes)
    /\ IF ~vd_scenes[vd_i + 1]
       THEN UNCHANGED <<vd_dir, vd_audio_paths, vd_none>>
       ELSE \E stop \in ToneStops, silent_written \in BOOLEAN :
               LET after == AfterFallbackAudio(vd_dir, vd_i + 1, stop, silent_written)
               IN  /\ stop = "moved" => silent_written
                   /\ vd_dir' = after.dir
                   /\ vd_audio_paths' = IF after.path THEN Append(vd_audio_paths, vd_i + 1)
                                        ELSE vd_audio_paths
                   /\ vd_none' = IF after.path THEN vd_none ELSE vd_none \cup {vd_i + 1}
    /\ vd_i' = vd_i + 1
    /\ UNCHANGED <<vd_pc, vd_scenes, besides_dir>>

\* return audio_paths
VoiceReturn ==
    /\ vd_pc = "loop"
    /\ vd_i = Len(vd_scenes)
    /\ vd_pc' = "returned"
    /\ UNCHANGED <<vd_scenes, vd_dir, vd_i, vd_audio_paths, vd_none, besides_dir>>

InitDir ==
    /\ vd_pc = "call"
    /\ vd_scenes \in NarrationLists
    /\ vd_dir \in {{[name |-> name, made |-> "before"] : name \in names} :
                      names \in SUBSET FilesBefore}
    /\ vd_i = 0
    /\ vd_audio_paths = <<>>
    /\ vd_none = {}
    /\ IdleBesidesDir

NextDir == CleanDirectory \/ VoiceForScene \/ VoiceReturn

SpecDir == InitDir /\ [][NextDir]_vars

(***************************************************************************)
(* Claims about the voice directory, checked under SpecDir.                *)
(***************************************************************************)
\* the scenes with narration for which generate_fallback_audio gave a path
Succeeded == {n \in 1..Len(vd_scenes) : vd_scenes[n] /\ n \notin vd_none}

\* C27: after generate_voice_for_scenes the audio files of the voice
\* directory are exactly scene_{i+1}.wav for the scenes with non-empty
\* narration whose generation succeeded, none of them a .wav or .mp3 from
\* before the call, and the returned list holds those paths in increasing
\* scene order.
C27_DirectoryHoldsTheNarrations ==
    vd_pc = "returned" =>
        /\ {f.name : f \in {g \in vd_dir : IsAudioName(g.name)}} =
               {SceneWav(n) : n \in Succeeded}
        /\ \A f \in vd_dir : IsAudioName(f.name) => f.made # "before"
        /\ Len(vd_audio_paths) = Cardinality(Succeeded)
        /\ \A j \in 1..Len(vd_audio_paths) : vd_audio_paths[j] \in Succeeded
        /\ \A j \in 1..(Len(vd_audio_paths) - 1) : vd_audio_paths[j] < vd_audio_paths[j + 1]

(***************************************************************************)
(* SpecWrap: the caption word-wrap of create_text_image(text, width).      *)
(***************************************************************************)
Word_a == <<"a">>

Word_bb == <<"b", "b">>

Word_dddd == <<"d", "d", "d", "d">>

\* a word wider than every narrow line of the model
Word_wide == <<"w", "w", "w", "w", "w", "w", "w">>

\* a caption longer than 100 characters
LongCaption == <<"a", "b", "c", " ", "a", "b", "c", " ", "a", "b", "c", " ", "a", "b", "c", " ", "a", "b", "c", " ", "a", "b", "c", " ", "a", "b", "c", " ", "a", "b", "c", " ", "a", "b", "c", " ", "a", "b", "c", " ", "a", "b", "c", " ", "a", "b", "c", " ", "a", "b", "c", " ", "a", "b", "c", " ", "a", "b", "c", " ", "a", "b", "c", " ", "a", "b", "c", " ", "a", "b", "c", " ", "a", "b", "c", " ", "a", "b", "c", " ", "a", "b", "c", " ", "a", "b", "c", " ", "a", "b", "c", " ", "a", "b", "c", " ", "a", "b", "c", " ", "a", "b", "c", " ">>

CaptionWords == {Word_a, Word_bb, Word_dddd, Word_wide}

RECURSIVE CaptionsOf(_)
CaptionsOf(n) ==
    IF n = 0 THEN {<<>>}
    ELSE LET shorter == CaptionsOf(n - 1)
         IN  shorter \cup CaptionWords
                     \cup {s \o <<" ">> \o w : s \in shorter \ {<<>>}, w \in CaptionWords}

Captions == CaptionsOf(MaxCaptionWords) \cup {LongCaption}

\* the widths of the model: narrow images that hold 1..MaxLineChars glyphs
\* beside the margin, and the default width
CaptionWidths ==
    {CaptionMargin + GlyphWidth * n : n \in 1..MaxLineChars} \cup {DefaultCaptionWidth}

\* d.textlength(s, font=font) with the fixed-width font of load_default()
TextLength(s) == GlyphWidth * Len(s)

\* text[:100] + "..." if len(text) > 100 else text
text_wrap(text) ==
    IF Len(text) > CaptionLimit THEN Take(text, CaptionLimit) \o Ellipsis ELSE text

\* lines = [], words = text_wrap.split(), line = []
WrapBegin ==
    /\ wr_pc = "call"
    /\ wr_words' = Words(text_wrap(wr_text))
    /\ wr_n' = 0
    /\ wr_line' = <<>>
    /\ wr_lines' = <<>>
    /\ wr_pc' = "loop"
    /\ UNCHANGED <<wr_text, wr_width, besides_wrap>>

\* one turn of the loop over the words
WrapWord ==
    /\ wr_pc = "loop"
    /\ wr_n < Len(wr_words)
    /\ LET word       == wr_words[wr_n + 1]
           appended   == Append(wr_line, word)
           text_width == TextLength(Join(appended, <<" ">>))
       IN  IF text_width > wr_width - CaptionMargin
           THEN /\ wr_lines' = Append(wr_lines, Join(wr_line, <<" ">>))
                /\ wr_line' = <<word>>
           ELSE /\ wr_lines' = wr_lines
                /\ wr_line' = appended
    /\ wr_n' = wr_n + 1
    /\ UNCHANGED <<wr_pc, wr_text, wr_width, wr_words, besides_wrap>>

\* if line: lines.append(" ".join(line))
WrapEnd ==
    /\ wr_pc = "loop"
    /\ wr_n = Len(wr_words)
    /\ wr_lines' = IF wr_line # <<>> THEN Append(wr_lines, Join(wr_line, <<" ">>))
                   ELSE wr_lines
    /\ wr_pc' = "done"
    /\ UNCHANGED <<wr_text, wr_width, wr_words, wr_n, wr_line, besides_wrap>>

InitWrap ==
    /\ wr_pc = "call"
    /\ wr_text \in Captions
    /\ wr_width \in CaptionWidths
    /\ wr_words = <<>>
    /\ wr_n = 0
    /\ wr_line = <<>>
    /\ wr_lines = <<>>
    /\ IdleBesidesWrap

NextWrap == WrapBegin \/ WrapWord \/ WrapEnd

SpecWrap == InitWrap /\ [][NextWrap]_vars

(***************************************************************************)
(* Claims about the caption word-wrap, checked under SpecWrap.             *)
(***************************************************************************)
\* C29: the emitted lines, joined in order, hold every word of the truncated
\* caption exactly once and in the original order, no emitted line is empty,
\* and every line that holds more than one word is at most width - 40 wide,
\* also when a single word is wider than the available width.
C29_WrapLosesNothing ==
    wr_pc = "done" =>
        /\ Words(Join(wr_lines, <<" ">>)) = wr_words
        /\ \A j \in 1..Len(wr_lines) : wr_lines[j] # <<>>
        /\ \A j \in 1..Len(wr_lines) :
              Len(Words(wr_lines[j])) > 1 =>
                  TextLength(wr_lines[j]) <= wr_width - CaptionMargin

(***************************************************************************)
(* SpecFront: the interactive front end.  Its state is st.session_state;   *)
(* every action is one run of the script, with at most one button pressed. *)
(* fe_last, fe_before and fe_reset remember the last press, the session    *)
(* before it, and whether Create Another Story was ever pressed.           *)
(***************************************************************************)
\* the session as one record
Session ==
    [story_submitted     |-> st_story_submitted,
     script_generated    |-> st_script_generated,
     script_approved     |-> st_script_approved,
     processing_complete |-> st_processing_complete,
     progress            |-> st_progress,
     scenes              |-> st_scenes,
     current_step        |-> st_current_step,
     output_paths        |-> st_output_paths]

\* "Initialize session state": the values given to the keys that are missing
InitialSession ==
    [story_submitted     |-> FALSE,
     script_generated    |-> FALSE,
     script_approved     |-> FALSE,
     processing_complete |-> FALSE,
     progress            |-> 0,
     scenes              |-> <<>>,
     current_step        |-> "None",
     output_paths        |-> {}]

\* the four flags of a session record
FlagsOf(session) ==
    <<session.story_submitted, session.script_generated, session.script_approved,
      session.processing_complete>>

\* a text of n letters
Letters(n) == [j \in 1..n |-> "a"]

\* what the text area can hold when Generate Script is pressed: nothing,
\* blanks, texts of 50 and of 51 characters, and the same inside blanks
FrontStories ==
    {<<>>,
     <<" ", " ">>,
     Letters(MinStoryLength),
     Letters(MinStoryLength + 1),
     <<" ">> \o Letters(MinStoryLength) \o <<" ", " ">>,
     <<" ">> \o Letters(MinStoryLength + 1) \o <<" ">>}

\* the scene lists generate_script_only can return, [] among them
FrontSceneLists == {[j \in 1..n |-> j] : n \in 0..MaxFrontScenes}

\* the output_paths generate_media_from_script returns: the video made or not
MediaPaths(with_video) ==
    {<<"images", "list">>, <<"voice", "list">>, <<"music", "path">>,
     <<"scenes", "path">>, <<"video", IF with_video THEN "path" ELSE "empty">>}

\* dict.update(other)
DictUpdate(dict, other) ==
    {e \in dict : \A o \in other : o[1] # e[1]} \cup other

\* which part of the page the script shows
ShowsStoryInput == ~st_script_generated

ShowsReview == ~ShowsStoryInput /\ st_script_generated /\ ~st_script_approved

ShowsProgress ==
    ~ShowsStoryInput /\ ~ShowsReview /\ st_script_approved /\ ~st_processing_complete

ShowsResults == st_processing_complete

\* "Generate Script" pressed with the text area holding story: the story is
\* too short; or os.makedirs or open raises after story_submitted is set;
\* or the script is generated
GenerateScript ==
    /\ ShowsStoryInput
    /\ fe_before' = Session
    /\ \E story \in FrontStories :
          IF story # <<>> /\ Len(Strip(story)) > MinStoryLength
          THEN /\ fe_last' = "generate"
               /\ st_story_submitted' = TRUE
               /\ \E raised \in BOOLEAN, returned \in FrontSceneLists :
                     IF raised
                     THEN UNCHANGED <<st_script_generated, st_progress, st_scenes,
                                      st_current_step, st_output_paths>>
                     ELSE /\ st_current_step' = "Breaking story into scenes"
                          /\ st_scenes' = returned
                          /\ st_output_paths' = {<<"scenes", "path">>}
                          /\ st_script_generated' = TRUE
                          /\ st_progress' = 50
          ELSE /\ fe_last' = "short"
               /\ UNCHANGED <<st_story_submitted, st_script_generated, st_progress,
                              st_scenes, st_current_step, st_output_paths>>
    /\ UNCHANGED <<st_script_approved, st_processing_complete, fe_reset, besides_front>>

\* "Edit Story" pressed
EditStory ==
    /\ ShowsReview
    /\ fe_before' = Session
    /\ fe_last' = "edit"
    /\ st_script_generated' = FALSE
    /\ st_script_approved' = FALSE
    /\ st_progress' = 0
    /\ UNCHANGED <<st_story_submitted, st_processing_complete, st_scenes, st_current_step,
                   st_output_paths, fe_reset, besides_front>>

\* "Approve Script & Create Media" pressed: the run is stopped when the
\* spinner opens, or generate_media_from_script returns its paths
ApproveScript ==
    /\ ShowsReview
    /\ fe_before' = Session
    /\ fe_last' = "approve"
    /\ st_script_approved' = TRUE
    /\ st_current_step' = "Generating images"
    /\ \E stopped \in BOOLEAN, with_video \in BOOLEAN :
          IF stopped
          THEN /\ st_progress' = 50
               /\ UNCHANGED <<st_output_paths, st_processing_complete>>
          ELSE /\ st_output_paths' = DictUpdate(st_output_paths, MediaPaths(with_video))
               /\ st_processing_complete' = TRUE
               /\ st_progress' = 100
    /\ UNCHANGED <<st_story_submitted, st_script_generated, st_scenes, fe_reset,
                   besides_front>>

\* a run of the script while the progress part shows and progress < 1.0
ProgressRerun ==
    /\ ShowsProgress
    /\ st_progress < 100
    /\ fe_before' = Session
    /\ fe_last' = "progress"
    /\ st_progress' = st_progress + 1
    /\ st_current_step' =
          IF st_progress + 1 >= 60 /\ st_current_step = "Generating images"
          THEN "Creating voice narration"
          ELSE IF st_progress + 1 >= 75 /\ st_current_step = "Creating voice narration"
          THEN "Composing background music"
          ELSE IF st_progress + 1 >= 90 /\ st_current_step = "Composing background music"
          THEN "Assembling final video"
          ELSE st_current_step
    /\ UNCHANGED <<st_story_submitted, st_script_generated, st_script_approved,
                   st_processing_complete, st_scenes, st_output_paths, fe_reset,
                   besides_front>>

\* the reset without the line st.session_state.script_approved = False
CreateAnotherStoryKeepingApproval ==
    /\ ShowsResults
    /\ fe_before' = Session
    /\ fe_last' = "reset"
    /\ fe_reset' = TRUE
    /\ st_story_submitted' = FALSE
    /\ st_script_generated' = FALSE
    /\ st_processing_complete' = FALSE
    /\ st_progress' = 0
    /\ st_scenes' = <<>>
    /\ st_current_step' = "None"
    /\ st_output_paths' = {}
    /\ UNCHANGED <<st_script_approved, besides_front>>

\* "Create Another Story" pressed
CreateAnotherStory ==
    /\ ShowsResults
    /\ fe_before' = Session
    /\ fe_last' = "reset"
    /\ fe_reset' = TRUE
    /\ st_story_submitted' = FALSE
    /\ st_script_generated' = FALSE
    /\ st_script_approved' = FALSE
    /\ st_processing_complete' = FALSE
    /\ st_progress' = 0
    /\ st_scenes' = <<>>
    /\ st_current_step' = "None"
    /\ st_output_paths' = {}
    /\ UNCHANGED besides_front

\* a run of the script with no button pressed: every key is in the session,
\* so the initialisation assigns nothing
Rerun ==
    /\ ~(ShowsProgress /\ st_progress < 100)
    /\ fe_before' = Session
    /\ fe_last' = "rerun"
    /\ UNCHANGED <<st_story_submitted, st_script_generated, st_script_approved,
                   st_processing_complete, st_progress, st_scenes, st_current_step,
                   st_output_paths, fe_reset, besides_front>>

InitFront ==
    /\ st_story_submitted = InitialSession.story_submitted
    /\ st_script_generated = InitialSession.script_generated
    /\ st_script_approved = InitialSession.script_approved
    /\ st_processing_complete = InitialSession.processing_complete
    /\ st_progress = InitialSession.progress
    /\ st_scenes = InitialSession.scenes
    /\ st_current_step = InitialSession.current_step
    /\ st_output_paths = InitialSession.output_paths
    /\ fe_last = "start"
    /\ fe_before = InitialSession
    /\ fe_reset = FALSE
    /\ IdleBesidesFront

NextFront ==
    \/ GenerateScript
    \/ EditStory
    \/ ApproveScript
    \/ ProgressRerun
    \/ CreateAnotherStory
    \/ Rerun

SpecFront == InitFront /\ [][NextFront]_vars

=============================================================================
